---- MODULE Spec2Model ----
(***************************************************************************)
(* Model of the TERRASYNC weekly-report tracker: the analytics services    *)
(* (src/src/lib/analyticsServices.ts), the report services                 *)
(* (src/src/lib/services.ts), the date helpers (src/src/lib/dateUtils.ts), *)
(* the editing form (src/src/components/ReportForm.tsx) and the analytics  *)
(* page (src/src/app/analytics/page.tsx).                                  *)
(*                                                                         *)
(* Time.  A JavaScript Date is modelled as an integer count of ticks; a    *)
(* local day has TicksPerDay ticks, tick 0 being 00:00:00.000 and the last *)
(* tick 23:59:59.999.  Day 0 is a Sunday and the first day of a month; a   *)
(* month has DaysPerMonth days.  The browser's zone is US Eastern, so the  *)
(* last tick of a local day already belongs to the next UTC day.           *)
(*                                                                         *)
(* Numbers.  Metric values are integers (the form parses them with         *)
(* parseInt); a percentage is the exact fraction num/den with den > 0.     *)
(***************************************************************************)
EXTENDS Integers, Sequences, FiniteSets, TLC

VARIABLES
    now,        \* the current instant (new Date()), in ticks
    store,      \* the weeklyReports collection, in document-id order
    reports,    \* the report list handed to a pure analytics function
    call,       \* the last service call with its arguments and return value
    page,       \* state of the analytics page component
    form        \* state of the editing form component

vars == <<now, store, reports, call, page, form>>

(***************************************************************************)
(* Bounds of the exploration                                               *)
(***************************************************************************)
TicksPerDay == 3
MaxRangeDay == 13       \* SpecRange: the clock runs over days 0..MaxRangeDay

(***************************************************************************)
(* Dates                                                                   *)
(***************************************************************************)
DaysPerWeek == 7
DaysPerMonth == 31

Min(a, b) == IF a <= b THEN a ELSE b
Max(a, b) == IF a >= b THEN a ELSE b

DayOf(t) == t \div TicksPerDay
\* Date.getDay(): 0 = Sunday
getDay(t) == DayOf(t) % DaysPerWeek
\* Date.getDate(): 1..DaysPerMonth
getDate(t) == (DayOf(t) % DaysPerMonth) + 1
\* year and month of a Date, as one month index
getMonth(t) == DayOf(t) \div DaysPerMonth
\* d.setHours(0, 0, 0, 0)
StartOfDay(t) == DayOf(t) * TicksPerDay
\* d.setHours(23, 59, 59, 999)
EndOfDay(t) == DayOf(t) * TicksPerDay + (TicksPerDay - 1)
\* d.setDate(d.getDate() + n)
AddDays(t, n) == t + n * TicksPerDay
\* d.toISOString().split('T')[0]: the UTC calendar day of the instant
IsoDateKey(t) == (t + 1) \div TicksPerDay

NoCall == [op |-> "none"]
NoForm == [open |-> FALSE]
\* the analytics page after mount: useState initial values, the debounced
\* first fetch scheduled, no fetch in flight
InitPage == [timeRange |-> "month", metricsData |-> <<>>, chartData |-> <<>>,
             achievements |-> <<>>, isLoading |-> TRUE, timer |-> TRUE,
             fetches |-> <<>>]

(***************************************************************************)
(* Time-window resolver                                                    *)
(***************************************************************************)
TimeFrames == {"week", "month", "quarter", "halfYear", "year", "unknown"}

getDateRangeNoEndOfDay(timeFrame, t) ==
    LET daysSinceMonday == IF getDay(t) = 0 THEN 6 ELSE getDay(t) - 1
        back == CASE timeFrame = "week" -> daysSinceMonday
                  [] timeFrame = "month" -> 30
                  [] timeFrame = "quarter" -> 90
                  [] timeFrame = "halfYear" -> 180
                  [] timeFrame = "year" -> 365
                  [] OTHER -> 30
    IN  [startDate |-> StartOfDay(AddDays(t, 0 - back)), endDate |-> StartOfDay(t)]

getDateRange(timeFrame, t) ==
    LET endDate == EndOfDay(t)
        daysSinceMonday == IF getDay(t) = 0 THEN 6 ELSE getDay(t) - 1
        back == CASE timeFrame = "week" -> daysSinceMonday
                  [] timeFrame = "month" -> 30
                  [] timeFrame = "quarter" -> 90
                  [] timeFrame = "halfYear" -> 180
                  [] timeFrame = "year" -> 365
                  [] OTHER -> 30
    IN  [startDate |-> StartOfDay(AddDays(t, 0 - back)), endDate |-> endDate]

(***************************************************************************)
(* SpecRange: the time-window resolver called at any instant               *)
(***************************************************************************)
InitRange ==
    /\ now \in 0 .. (TicksPerDay - 1)
    /\ store = <<>>
    /\ reports = <<>>
    /\ call = NoCall
    /\ page = InitPage
    /\ form = NoForm

\* the wall clock advances by one tick
Tick ==
    /\ DayOf(now + 1) <= MaxRangeDay
    /\ now' = now + 1
    /\ UNCHANGED <<store, reports, call, page, form>>

CallGetDateRange ==
    \E tf \in TimeFrames :
        /\ call' = [op |-> "getDateRange", timeFrame |-> tf, at |-> now,
                    value |-> getDateRange(tf, now)]
        /\ UNCHANGED <<now, store, reports, page, form>>

NextRange == Tick \/ CallGetDateRange

SpecRange == InitRange /\ [][NextRange]_vars

\* C10: for every range name and every current instant, getDateRange returns
\* startDate <= endDate, and endDate is the last tick (23:59:59.999) of the
\* day of the call.
C10_RangeOrderedEndsToday ==
    call.op = "getDateRange" =>
        /\ call.value.startDate <= call.value.endDate
        /\ call.value.endDate \div TicksPerDay = call.at \div TicksPerDay
        /\ call.value.endDate % TicksPerDay = TicksPerDay - 1

\* a week window resolved on a Sunday afternoon: the start rolled back six days
C10_Witness ==
    /\ call.op = "getDateRange"
    /\ call.timeFrame = "week"
    /\ getDay(call.at) = 0
    /\ call.at % TicksPerDay = 1
    /\ call.at > TicksPerDay
    /\ call.value.startDate = call.value.endDate - (7 * TicksPerDay - 1)

(***************************************************************************)
(* Metric definitions and report records                                   *)
(***************************************************************************)
DEFAULT_METRICS == <<
    [id |-> "1", title |-> "New Accounts Outreach", frequency |-> "Weekly",
     completed |-> FALSE, value |-> 0, targetValue |-> 10],
    [id |-> "2", title |-> "Acres Secured", frequency |-> "Monthly",
     completed |-> FALSE, value |-> 0, targetValue |-> 5],
    [id |-> "3", title |-> "Quotations Sent", frequency |-> "Monthly",
     completed |-> FALSE, value |-> 0, targetValue |-> 20],
    [id |-> "4", title |-> "Quotation Closing Rate", frequency |-> "Monthly",
     completed |-> FALSE, value |-> 0, targetValue |-> 20] >>

DefaultTitles == {DEFAULT_METRICS[i].title : i \in DOMAIN DEFAULT_METRICS}

\* DEFAULT_METRICS.find(m => m.title === title), as a list of zero or one entry
FindDefaultMetric(title) ==
    LET IsTitle(m) == m.title = title
        found == SelectSeq(DEFAULT_METRICS, IsTitle)
    IN  IF found = <<>> THEN <<>> ELSE <<Head(found)>>

\* a metric entry of a stored report; value and targetValue are optional
\* fields (types/index.ts), an absent field reads as undefined
HasNumber(m, f) == f \in DOMAIN m

\* a report as the services return it
MkReport(id, userId, metrics, createdAt, weekEndingDate, status, archived) ==
    [id |-> id, userId |-> userId, reportText |-> "", metrics |-> metrics,
     createdAt |-> createdAt, weekEndingDate |-> weekEndingDate, status |-> status,
     archived |-> archived]

(***************************************************************************)
(* Achievement calculator                                                  *)
(***************************************************************************)
\* an exact fraction num/den, den > 0
Frac(n, d) == [num |-> n, den |-> d]
FracGeq(p, k) == p.num >= k * p.den
FracLeq(p, k) == p.num <= k * p.den
FracEq(p, k) == p.num = k * p.den

\* metricPerformance before any default metric has been entered
NoInitialMetricPerformance == <<>>

\* DEFAULT_METRICS.forEach(metric => metricPerformance[metric.title] = {sum: 0, target: 0})
InitialMetricPerformance == [t \in DefaultTitles |-> [sum |-> 0, target |-> 0]]

\* const { title, value = 0, targetValue = 0 } = metric; and the two += lines
AccumulateMetric(perf, metric) ==
    LET value == IF HasNumber(metric, "value") THEN metric.value ELSE 0
        targetValue == IF HasNumber(metric, "targetValue") THEN metric.targetValue ELSE 0
        old == IF metric.title \in DOMAIN perf THEN perf[metric.title]
                                               ELSE [sum |-> 0, target |-> 0]
        new == [sum |-> old.sum + value, target |-> old.target + targetValue]
    IN  [t \in DOMAIN perf \cup {metric.title} |->
            IF t = metric.title THEN new ELSE perf[t]]

RECURSIVE AccumulateMetrics(_, _)
AccumulateMetrics(perf, metrics) ==
    IF metrics = <<>> THEN perf
    ELSE AccumulateMetrics(AccumulateMetric(perf, Head(metrics)), Tail(metrics))

RECURSIVE AccumulateReports(_, _)
AccumulateReports(perf, rs) ==
    IF rs = <<>> THEN perf
    ELSE AccumulateReports(AccumulateMetrics(perf, Head(rs).metrics), Tail(rs))

\* a calculator without the default-target pass
WithoutDefaultTargets(perf) == perf

\* the "use the default target value" pass over Object.keys(metricPerformance)
WithDefaultTargets(perf) ==
    [t \in DOMAIN perf |->
        LET d == FindDefaultMetric(t)
        IN  IF perf[t].target = 0 /\ d # <<>> /\ d[1].targetValue # 0
            THEN [perf[t] EXCEPT !.target = d[1].targetValue]
            ELSE perf[t]]

\* target > 0 ? Math.min(100, (sum / target) * 100) : 0
AchievementPercentage(sum, target) ==
    IF target > 0
    THEN IF sum * 100 >= 100 * target THEN Frac(100, 1) ELSE Frac(sum * 100, target)
    ELSE Frac(0, 1)

AchievementStatus(percentage) ==
    IF FracGeq(percentage, 100) THEN "ahead"
    ELSE IF FracGeq(percentage, 75) THEN "on-track"
    ELSE "behind"

calculateAchievementPercentage(rs) ==
    LET perf == WithDefaultTargets(AccumulateReports(InitialMetricPerformance, rs))
    IN  [t \in DOMAIN perf |->
            LET percentage == AchievementPercentage(perf[t].sum, perf[t].target)
            IN  [percentage |-> percentage, status |-> AchievementStatus(percentage)]]

(***************************************************************************)
(* SpecAch: calculateAchievementPercentage applied to bounded report lists *)
(***************************************************************************)
MaxAchReports == 4
AchValues == {-1, 0, 1, 2}
AchTargets == {0, 5}

\* the entry the form writes for a defined metric with the given numbers
MkEntry(title, value, targetValue) ==
    LET d == FindDefaultMetric(title)
    IN  [id |-> IF d = <<>> THEN "9" ELSE d[1].id,
         title |-> title,
         frequency |-> IF d = <<>> THEN "Weekly" ELSE d[1].frequency,
         completed |-> value >= targetValue,
         value |-> value, targetValue |-> targetValue]

AchMetricLists ==
    {<<>>}
    \cup {<<MkEntry("Acres Secured", v, t)>> : v \in AchValues, t \in AchTargets}
    \cup {<<MkEntry("Site Visits", 1, t)>> : t \in AchTargets}

InitAch ==
    /\ now = 0
    /\ store = <<>>
    /\ reports = <<>>
    /\ call = NoCall
    /\ page = InitPage
    /\ form = NoForm

AddAchReport ==
    \E m \in AchMetricLists :
        /\ Len(reports) < MaxAchReports
        /\ reports' = Append(reports,
               MkReport(Len(reports) + 1, "ann", m, now, now, "submitted", FALSE))
        /\ call' = NoCall
        /\ UNCHANGED <<now, store, page, form>>

CallCalculateAchievementPercentage ==
    /\ call' = [op |-> "calculateAchievementPercentage",
                value |-> calculateAchievementPercentage(reports)]
    /\ UNCHANGED <<now, store, reports, page, form>>

NextAch == AddAchReport \/ CallCalculateAchievementPercentage

SpecAch == InitAch /\ [][NextAch]_vars

AchCalled == call.op = "calculateAchievementPercentage"

\* the values of the metric with the given title, one per report that has it
RECURSIVE ValuesOf(_, _)
ValuesOf(rs, title) ==
    IF rs = <<>> THEN <<>>
    ELSE LET IsTitle(m) == m.title = title
             ms == SelectSeq(Head(rs).metrics, IsTitle)
         IN  (IF ms = <<>> THEN <<>> ELSE <<ms[1].value>>) \o ValuesOf(Tail(rs), title)

RECURSIVE TargetsOf(_, _)
TargetsOf(rs, title) ==
    IF rs = <<>> THEN <<>>
    ELSE LET IsTitle(m) == m.title = title
             ms == SelectSeq(Head(rs).metrics, IsTitle)
         IN  (IF ms = <<>> THEN <<>> ELSE <<ms[1].targetValue>>) \o TargetsOf(Tail(rs), title)

\* C1: every percentage in the result of calculateAchievementPercentage lies
\* in [0, 100], whatever the metric values and targets of the reports.
C1_PercentageWithinZeroHundred ==
    AchCalled =>
        \A t \in DOMAIN call.value :
            /\ FracGeq(call.value[t].percentage, 0)
            /\ FracLeq(call.value[t].percentage, 100)

\* C2: four reports with "Acres Secured" values 1, 2, 1, 0 against the target 5
\* yield percentage 80 and status on-track.
C2_FourWeeksEightyOnTrack ==
    ( /\ AchCalled
      /\ ValuesOf(reports, "Acres Secured") = <<1, 2, 1, 0>>
      /\ TargetsOf(reports, "Acres Secured") = <<5, 5, 5, 5>> )
    => /\ FracEq(call.value["Acres Secured"].percentage, 80)
       /\ call.value["Acres Secured"].status = "on-track"

\* C4: the result has an entry for every metric of DEFAULT_METRICS, and a
\* defined metric that occurs in no report has percentage 0 and status behind.
C4_EveryDefinedMetricPresent ==
    AchCalled =>
        \A i \in DOMAIN DEFAULT_METRICS :
            LET t == DEFAULT_METRICS[i].title
            IN  /\ t \in DOMAIN call.value
                /\ ValuesOf(reports, t) = <<>> =>
                       /\ FracEq(call.value[t].percentage, 0)
                       /\ call.value[t].status = "behind"

\* reports exist, all of them without "Quotations Sent", and the calculator ran
C4_Witness ==
    /\ AchCalled
    /\ Len(reports) >= 2
    /\ ValuesOf(reports, "Acres Secured") # <<>>
    /\ ValuesOf(reports, "Quotations Sent") = <<>>
    /\ call.value["Quotations Sent"].status = "behind"

(***************************************************************************)
(* The report store (Firestore collection weeklyReports)                   *)
(***************************************************************************)
\* Documents carry an auto-generated id; a query without orderBy returns them
\* in id order.  store is the sequence of documents in id order.
RECURSIVE InsertDoc(_, _)
InsertDoc(st, doc) ==
    IF st = <<>> THEN <<doc>>
    ELSE IF doc.id < Head(st).id THEN <<doc>> \o st
    ELSE <<Head(st)>> \o InsertDoc(Tail(st), doc)

DocIdsOf(st) == {st[i].id : i \in DOMAIN st}

\* query(collection, where('status', '==', status))
QueryByStatus(st, status) ==
    LET HasStatus(d) == d.status = status
    IN  SelectSeq(st, HasStatus)

(***************************************************************************)
(* Report filter/sort stage                                                *)
(***************************************************************************)
InRangeBothDates(r, startDate, endDate) ==
    /\ (r.weekEndingDate >= startDate /\ r.weekEndingDate <= endDate)
    /\ (r.createdAt >= startDate /\ r.createdAt <= endDate)

\* the predicate of .filter(report => ...)
InRange(r, startDate, endDate) ==
    \/ (r.weekEndingDate >= startDate /\ r.weekEndingDate <= endDate)
    \/ (r.createdAt >= startDate /\ r.createdAt <= endDate)

\* a sort that puts an element before the elements that compare equal to it
RECURSIVE InsertBeforeEqual(_, _)
InsertBeforeEqual(sorted, r) ==
    IF sorted = <<>> THEN <<r>>
    ELSE IF Head(sorted).weekEndingDate > r.weekEndingDate
         THEN <<Head(sorted)>> \o InsertBeforeEqual(Tail(sorted), r)
         ELSE <<r>> \o sorted

RECURSIVE SortUnstable(_)
SortUnstable(rs) ==
    IF rs = <<>> THEN <<>>
    ELSE InsertBeforeEqual(SortUnstable(SubSeq(rs, 1, Len(rs) - 1)), rs[Len(rs)])

\* Array.prototype.sort is stable: elements that compare equal keep their order
RECURSIVE InsertAfterEqual(_, _)
InsertAfterEqual(sorted, r) ==
    IF sorted = <<>> THEN <<r>>
    ELSE IF Head(sorted).weekEndingDate >= r.weekEndingDate
         THEN <<Head(sorted)>> \o InsertAfterEqual(Tail(sorted), r)
         ELSE <<r>> \o sorted

\* .sort((a, b) => b.weekEndingDate.getTime() - a.weekEndingDate.getTime())
RECURSIVE SortByWeekEndingDesc(_)
SortByWeekEndingDesc(rs) ==
    IF rs = <<>> THEN <<>>
    ELSE InsertAfterEqual(SortByWeekEndingDesc(SubSeq(rs, 1, Len(rs) - 1)), rs[Len(rs)])

\* a stage that collects the reports of each inclusion condition separately
FilterSortStagePerCondition(rs, startDate, endDate) ==
    LET ByWeekEnding(r) == r.weekEndingDate >= startDate /\ r.weekEndingDate <= endDate
        ByCreatedAt(r) == r.createdAt >= startDate /\ r.createdAt <= endDate
    IN  SortByWeekEndingDesc(SelectSeq(rs, ByWeekEnding) \o SelectSeq(rs, ByCreatedAt))

\* the .filter(...).sort(...) chain applied to a list of reports
FilterSortStage(rs, startDate, endDate) ==
    LET Keep(r) == InRange(r, startDate, endDate)
    IN  SortByWeekEndingDesc(SelectSeq(rs, Keep))

getReportsByDateRange(st, startDate, endDate) ==
    FilterSortStage(QueryByStatus(st, "submitted"), startDate, endDate)

getReportsForAnalytics(st, timeFrame, t) ==
    LET range == getDateRange(timeFrame, t)
    IN  getReportsByDateRange(st, range.startDate, range.endDate)

(***************************************************************************)
(* SpecFilter: getReportsByDateRange over bounded stores and windows       *)
(***************************************************************************)
MaxFilterDocs == 2
FilterInstants == {0, 1, 2}
Statuses == {"pending", "submitted"}

InitFilter ==
    /\ now = 0
    /\ store = <<>>
    /\ reports = <<>>
    /\ call = NoCall
    /\ page = InitPage
    /\ form = NoForm

\* a document written earlier, with the dates and status it was given
AddFilterDoc ==
    \E id \in (1 .. MaxFilterDocs) \ DocIdsOf(store),
       wed \in FilterInstants, cr \in FilterInstants, status \in Statuses :
        /\ store' = InsertDoc(store,
               MkReport(id, "ann", DEFAULT_METRICS, cr, wed, status, FALSE))
        /\ call' = NoCall
        /\ UNCHANGED <<now, reports, page, form>>

CallGetReportsByDateRange ==
    \E s \in FilterInstants, e \in FilterInstants :
        /\ call' = [op |-> "getReportsByDateRange", startDate |-> s, endDate |-> e,
                    value |-> getReportsByDateRange(store, s, e)]
        /\ UNCHANGED <<now, store, reports, page, form>>

\* the filter/sort stage applied once more to the list it returned
ReapplyFilterSortStage ==
    /\ call.op \in {"getReportsByDateRange", "FilterSortStage"}
    /\ call' = [op |-> "FilterSortStage", startDate |-> call.startDate,
                endDate |-> call.endDate, input |-> call.value,
                value |-> FilterSortStage(call.value, call.startDate, call.endDate)]
    /\ UNCHANGED <<now, store, reports, page, form>>

NextFilter == AddFilterDoc \/ CallGetReportsByDateRange \/ ReapplyFilterSortStage

SpecFilter == InitFilter /\ [][NextFilter]_vars

IdsIn(rs) == {rs[i].id : i \in DOMAIN rs}

\* C5: a submitted report is kept by getReportsByDateRange exactly when its
\* weekEndingDate or its createdAt lies in [startDate, endDate], bounds included.
C5_OrInclusion ==
    call.op = "getReportsByDateRange" =>
        \A i \in DOMAIN store :
            store[i].status = "submitted" =>
                ( store[i].id \in IdsIn(call.value)
                  <=> \/ ( call.startDate <= store[i].weekEndingDate
                           /\ store[i].weekEndingDate <= call.endDate )
                      \/ ( call.startDate <= store[i].createdAt
                           /\ store[i].createdAt <= call.endDate ) )

\* one kept report has only its createdAt in the window, another only its
\* weekEndingDate
C5_Witness ==
    /\ call.op = "getReportsByDateRange"
    /\ call.startDate = 1 /\ call.endDate = 1
    /\ \E i, j \in DOMAIN call.value :
        /\ call.value[i].weekEndingDate = 2 /\ call.value[i].createdAt = 1
        /\ call.value[j].weekEndingDate = 1 /\ call.value[j].createdAt = 0

\* C6: the filter/sort stage applied to its own output, same window, returns
\* the same reports in the same order.
C6_FilterIdempotent ==
    call.op = "FilterSortStage" => call.value = call.input

\* the stage was re-applied to two kept reports with equal weekEndingDate
C6_Witness ==
    /\ call.op = "FilterSortStage"
    /\ Len(call.input) = 2
    /\ call.input[1].weekEndingDate = call.input[2].weekEndingDate
    /\ call.input[1].createdAt # call.input[2].createdAt

\* C21: the list getReportsByDateRange returns is in order of non-increasing
\* weekEndingDate and holds each report id at most once, also for a report
\* whose weekEndingDate and createdAt both lie in the window.
C21_SortedNoDuplicates ==
    call.op = "getReportsByDateRange" =>
        /\ \A i, j \in DOMAIN call.value :
              i < j => call.value[i].weekEndingDate >= call.value[j].weekEndingDate
        /\ \A i, j \in DOMAIN call.value :
              i # j => call.value[i].id # call.value[j].id

\* two reports are returned in the reverse of their store order, and one of
\* them has both of its dates in the window
C21_Witness ==
    /\ call.op = "getReportsByDateRange"
    /\ Len(call.value) = 2
    /\ call.value[1].id > call.value[2].id
    /\ call.value[1].weekEndingDate > call.value[2].weekEndingDate
    /\ \E i \in DOMAIN call.value :
          /\ call.startDate <= call.value[i].weekEndingDate
          /\ call.value[i].weekEndingDate <= call.endDate
          /\ call.startDate <= call.value[i].createdAt
          /\ call.value[i].createdAt <= call.endDate

(***************************************************************************)
(* Per-metric series builder                                               *)
(***************************************************************************)
\* report.metrics?.find(m => m.title === metricTitle), zero or one entry
FindMetric(r, title) ==
    LET IsTitle(m) == m.title = title
        found == SelectSeq(r.metrics, IsTitle)
    IN  IF found = <<>> THEN <<>> ELSE <<Head(found)>>

\* defaultMetric?.targetValue || 10
SeriesDefaultTarget(title) ==
    LET d == FindDefaultMetric(title)
    IN  IF d # <<>> /\ d[1].targetValue # 0 THEN d[1].targetValue ELSE 10

PointIndex(dataMap, dateKey) == {i \in DOMAIN dataMap : dataMap[i].date = dateKey}

\* a merge that keeps the target of the report processed last
MergePointLastTarget(dataMap, dateKey, value, target) ==
    IF PointIndex(dataMap, dateKey) # {}
    THEN [i \in DOMAIN dataMap |->
            IF dataMap[i].date = dateKey
            THEN [date |-> dateKey, value |-> dataMap[i].value + value, target |-> target]
            ELSE dataMap[i]]
    ELSE Append(dataMap, [date |-> dateKey, value |-> value, target |-> target])

\* dataMap.has(dateKey) ? dataMap.set(merged) : dataMap.set(new); a Map keeps
\* the insertion position of a key that is set again
MergePoint(dataMap, dateKey, value, target) ==
    IF PointIndex(dataMap, dateKey) # {}
    THEN [i \in DOMAIN dataMap |->
            IF dataMap[i].date = dateKey
            THEN [date |-> dateKey, value |-> dataMap[i].value + value,
                  target |-> Max(dataMap[i].target, target)]
            ELSE dataMap[i]]
    ELSE Append(dataMap, [date |-> dateKey, value |-> value, target |-> target])

\* a loop in which a report without the metric adds a point of value 0
RECURSIVE SeriesLoopZeroWhenAbsent(_, _, _)
SeriesLoopZeroWhenAbsent(acc, rs, title) ==
    IF rs = <<>> THEN acc
    ELSE LET report == Head(rs)
             dateKey == IsoDateKey(report.weekEndingDate)
             metric == FindMetric(report, title)
             value == IF metric # <<>> /\ HasNumber(metric[1], "value")
                      THEN metric[1].value ELSE 0
             target == IF metric # <<>> /\ HasNumber(metric[1], "targetValue")
                       THEN metric[1].targetValue ELSE SeriesDefaultTarget(title)
         IN  SeriesLoopZeroWhenAbsent(
                    [dataMap |-> MergePoint(acc.dataMap, dateKey, value, target),
                     totalValue |-> acc.totalValue + value,
                     totalTarget |-> acc.totalTarget + target,
                     count |-> acc.count + 1],
                    Tail(rs), title)

\* the loop "for (const report of reports)" with its accumulators
RECURSIVE SeriesLoop(_, _, _)
SeriesLoop(acc, rs, title) ==
    IF rs = <<>> THEN acc
    ELSE LET report == Head(rs)
             dateKey == IsoDateKey(report.weekEndingDate)
             metric == FindMetric(report, title)
             value == IF HasNumber(metric[1], "value") THEN metric[1].value ELSE 0
             target == IF HasNumber(metric[1], "targetValue") THEN metric[1].targetValue
                       ELSE SeriesDefaultTarget(title)
         IN  IF metric = <<>> THEN SeriesLoop(acc, Tail(rs), title)
             ELSE SeriesLoop(
                    [dataMap |-> MergePoint(acc.dataMap, dateKey, value, target),
                     totalValue |-> acc.totalValue + value,
                     totalTarget |-> acc.totalTarget + target,
                     count |-> acc.count + 1],
                    Tail(rs), title)

RECURSIVE InsertByDate(_, _)
InsertByDate(sorted, point) ==
    IF sorted = <<>> THEN <<point>>
    ELSE IF Head(sorted).date <= point.date
         THEN <<Head(sorted)>> \o InsertByDate(Tail(sorted), point)
         ELSE <<point>> \o sorted

\* .sort((a, b) => new Date(a.date).getTime() - new Date(b.date).getTime())
RECURSIVE SortByDateAsc(_)
SortByDateAsc(points) ==
    IF points = <<>> THEN <<>>
    ELSE InsertByDate(SortByDateAsc(SubSeq(points, 1, Len(points) - 1)), points[Len(points)])

EmptyPerformance ==
    [data |-> <<>>, total |-> 0, average |-> Frac(0, 1), completionRate |-> Frac(0, 1)]

\* a series builder that fabricates a data point when no report has the metric
BuildSeriesWithSample(rs, title) ==
    LET acc == SeriesLoop([dataMap |-> <<>>, totalValue |-> 0, totalTarget |-> 0,
                           count |-> 0], rs, title)
        data == SortByDateAsc(acc.dataMap)
        average == IF acc.count > 0 THEN Frac(acc.totalValue, acc.count) ELSE Frac(0, 1)
        completionRate == IF acc.totalTarget > 0
                          THEN Frac(acc.totalValue * 100, acc.totalTarget) ELSE Frac(0, 1)
    IN  IF Len(data) = 0
        THEN [data |-> <<[date |-> 0, value |-> 0, target |-> SeriesDefaultTarget(title)]>>,
              total |-> 0, average |-> Frac(0, 1), completionRate |-> Frac(0, 1)]
        ELSE [data |-> data, total |-> acc.totalValue, average |-> average,
              completionRate |-> completionRate]

\* getPerformanceByMetric after its store read: the loop, the sort, the
\* averages and the empty-series return
BuildSeries(rs, title) ==
    LET acc == SeriesLoop([dataMap |-> <<>>, totalValue |-> 0, totalTarget |-> 0,
                           count |-> 0], rs, title)
        data == SortByDateAsc(acc.dataMap)
        average == IF acc.count > 0 THEN Frac(acc.totalValue, acc.count) ELSE Frac(0, 1)
        completionRate == IF acc.totalTarget > 0
                          THEN Frac(acc.totalValue * 100, acc.totalTarget) ELSE Frac(0, 1)
    IN  IF Len(data) = 0 THEN EmptyPerformance
        ELSE [data |-> data, total |-> acc.totalValue, average |-> average,
              completionRate |-> completionRate]

getPerformanceByMetric(st, timeFrame, title, t) ==
    BuildSeries(getReportsForAnalytics(st, timeFrame, t), title)

(***************************************************************************)
(* SpecSeries: the series builder applied to bounded report lists          *)
(***************************************************************************)
MaxSeriesReports == 3
\* two local days; the last tick of the first and a tick of the second share
\* one day key
SeriesInstants == {1, TicksPerDay - 1, TicksPerDay + 1}
SeriesTitles == {"Acres Secured", "Quotations Sent"}

SeriesMetricLists ==
    { <<>>,
      <<MkEntry("Acres Secured", 1, 3)>>,
      <<[id |-> "2", title |-> "Acres Secured", frequency |-> "Monthly",
         completed |-> FALSE, value |-> 1]>>,
      <<MkEntry("New Accounts Outreach", 4, 10), MkEntry("Acres Secured", 2, 5)>> }

InitSeries ==
    /\ now = 0
    /\ store = <<>>
    /\ reports = <<>>
    /\ call = NoCall
    /\ page = InitPage
    /\ form = NoForm

AddSeriesReport ==
    \E m \in SeriesMetricLists, wed \in SeriesInstants :
        /\ Len(reports) < MaxSeriesReports
        /\ reports' = Append(reports,
               MkReport(Len(reports) + 1, "ann", m, wed, wed, "submitted", FALSE))
        /\ call' = NoCall
        /\ UNCHANGED <<now, store, page, form>>

CallBuildSeries ==
    \E title \in SeriesTitles :
        /\ call' = [op |-> "getPerformanceByMetric", metricTitle |-> title,
                    value |-> BuildSeries(reports, title)]
        /\ UNCHANGED <<now, store, reports, page, form>>

NextSeries == AddSeriesReport \/ CallBuildSeries

SpecSeries == InitSeries /\ [][NextSeries]_vars

Permuted(rs, p) == [i \in DOMAIN rs |-> rs[p[i]]]

HasMetric(r, title) == FindMetric(r, title) # <<>>

\* C7: the series is the same for every permutation of the input reports, and
\* two reports with the same day key that both contain the metric merge, in
\* either order, into one point whose value is the sum of their values and
\* whose target is the larger of their targets.
C7_MergeOrderIndependent ==
    call.op = "getPerformanceByMetric" =>
        /\ \A p \in Permutations(DOMAIN reports) :
               BuildSeries(Permuted(reports, p), call.metricTitle) = call.value
        /\ \A i, j \in DOMAIN reports :
               ( /\ i # j
                 /\ IsoDateKey(reports[i].weekEndingDate) = IsoDateKey(reports[j].weekEndingDate)
                 /\ HasMetric(reports[i], call.metricTitle)
                 /\ HasMetric(reports[j], call.metricTitle)
                 /\ HasNumber(FindMetric(reports[i], call.metricTitle)[1], "targetValue")
                 /\ HasNumber(FindMetric(reports[j], call.metricTitle)[1], "targetValue") )
               => LET a == FindMetric(reports[i], call.metricTitle)[1]
                      b == FindMetric(reports[j], call.metricTitle)[1]
                      merged == <<[date |-> IsoDateKey(reports[i].weekEndingDate),
                                   value |-> a.value + b.value,
                                   target |-> IF a.targetValue >= b.targetValue
                                              THEN a.targetValue ELSE b.targetValue]>>
                  IN  /\ BuildSeries(<<reports[i], reports[j]>>, call.metricTitle).data = merged
                      /\ BuildSeries(<<reports[j], reports[i]>>, call.metricTitle).data = merged

\* two reports of different local days share a day key, their targets differ,
\* and the series holds their merged point
C7_Witness ==
    /\ call.op = "getPerformanceByMetric"
    /\ call.metricTitle = "Acres Secured"
    /\ Len(reports) = 2
    /\ reports[1].weekEndingDate # reports[2].weekEndingDate
    /\ reports[1].metrics = <<MkEntry("Acres Secured", 1, 3)>>
    /\ Len(reports[2].metrics) = 2
    /\ call.value.data = <<[date |-> 1, value |-> 3, target |-> 5]>>

(***************************************************************************)
(* Metric aggregator                                                       *)
(***************************************************************************)
\* obj[k] = v on a JavaScript object
Put(f, k, v) == [x \in DOMAIN f \cup {k} |-> IF x = k THEN v ELSE f[x]]

\* one metric of one report: the date bucket and the running totals
PerfMetric(acc, dateKey, metric) ==
    LET value == IF HasNumber(metric, "value") THEN metric.value ELSE 0
        targetValue == IF HasNumber(metric, "targetValue") THEN metric.targetValue ELSE 0
        day == acc.metricsByDate[dateKey]
        dayValue == IF metric.title \in DOMAIN day THEN day[metric.title] ELSE 0
        old == IF metric.title \in DOMAIN acc.metricTotals
               THEN acc.metricTotals[metric.title]
               ELSE [sum |-> 0, target |-> 0, count |-> 0]
    IN  [metricsByDate |->
            Put(acc.metricsByDate, dateKey, Put(day, metric.title, dayValue + value)),
         metricTotals |->
            Put(acc.metricTotals, metric.title,
                [sum |-> old.sum + value, target |-> old.target + targetValue,
                 count |-> old.count + 1])]

RECURSIVE PerfMetrics(_, _, _)
PerfMetrics(acc, dateKey, metrics) ==
    IF metrics = <<>> THEN acc
    ELSE PerfMetrics(PerfMetric(acc, dateKey, Head(metrics)), dateKey, Tail(metrics))

\* reports.forEach(report => ...): the bucket of the report's createdAt day is
\* created even when the report has no metrics
RECURSIVE PerfReports(_, _)
PerfReports(acc, rs) ==
    IF rs = <<>> THEN acc
    ELSE LET dateKey == IsoDateKey(Head(rs).createdAt)
             day == IF dateKey \in DOMAIN acc.metricsByDate
                    THEN acc.metricsByDate[dateKey] ELSE <<>>
             withDay == [acc EXCEPT !.metricsByDate = Put(acc.metricsByDate, dateKey, day)]
         IN  PerfReports(PerfMetrics(withDay, dateKey, Head(rs).metrics), Tail(rs))

\* Object.keys(metricsByDate).sort()
RECURSIVE SortedKeys(_)
SortedKeys(S) ==
    IF S = {} THEN <<>>
    ELSE LET least == CHOOSE x \in S : \A y \in S : x <= y
         IN  <<least>> \o SortedKeys(S \ {least})

\* an aggregator that caps the completion percentage at 100
AggregateMetricsClamped(rs) ==
    LET acc == PerfReports([metricsByDate |-> <<>>, metricTotals |-> <<>>], rs)
        keys == SortedKeys(DOMAIN acc.metricsByDate)
        tot == acc.metricTotals
    IN  [byDate |-> [i \in DOMAIN keys |->
                        [date |-> keys[i], metrics |-> acc.metricsByDate[keys[i]]]],
         totals |-> [t \in DOMAIN tot |-> tot[t].sum],
         averages |-> [t \in DOMAIN tot |->
                        IF tot[t].count > 0 THEN Frac(tot[t].sum, tot[t].count)
                        ELSE Frac(0, 1)],
         completion |-> [t \in DOMAIN tot |->
                        IF tot[t].target > 0
                        THEN IF tot[t].sum > tot[t].target THEN Frac(100, 1)
                             ELSE Frac(tot[t].sum * 100, tot[t].target)
                        ELSE Frac(0, 1)]]

\* getMetricsPerformance after its store read
AggregateMetrics(rs) ==
    LET acc == PerfReports([metricsByDate |-> <<>>, metricTotals |-> <<>>], rs)
        keys == SortedKeys(DOMAIN acc.metricsByDate)
        tot == acc.metricTotals
    IN  [byDate |-> [i \in DOMAIN keys |->
                        [date |-> keys[i], metrics |-> acc.metricsByDate[keys[i]]]],
         totals |-> [t \in DOMAIN tot |-> tot[t].sum],
         averages |-> [t \in DOMAIN tot |->
                        IF tot[t].count > 0 THEN Frac(tot[t].sum, tot[t].count)
                        ELSE Frac(0, 1)],
         completion |-> [t \in DOMAIN tot |->
                        IF tot[t].target > 0 THEN Frac(tot[t].sum * 100, tot[t].target)
                        ELSE Frac(0, 1)]]

getMetricsPerformance(st, timeFrame, t) ==
    AggregateMetrics(getReportsForAnalytics(st, timeFrame, t))

(***************************************************************************)
(* Analytics page                                                          *)
(***************************************************************************)
\* DEFAULT_METRICS.map(metric => ({title, color, data: []}))
EmptyChartData == [i \in DOMAIN DEFAULT_METRICS |->
                      [title |-> DEFAULT_METRICS[i].title, data |-> <<>>]]

\* a fan-out that asks for the month window whatever the range
FetchChartsOfMonth(st, timeFrame, t) ==
    [i \in DOMAIN DEFAULT_METRICS |->
        [title |-> DEFAULT_METRICS[i].title,
         data |-> getPerformanceByMetric(st, "month", DEFAULT_METRICS[i].title, t).data]]

\* Promise.all(DEFAULT_METRICS.map(metric => getPerformanceByMetric(...))); the
\* four reads are issued together and served from one state of the store
FetchCharts(st, timeFrame, t) ==
    [i \in DOMAIN DEFAULT_METRICS |->
        [title |-> DEFAULT_METRICS[i].title,
         data |-> getPerformanceByMetric(st, timeFrame, DEFAULT_METRICS[i].title, t).data]]

RemoveAt(seq, i) == SubSeq(seq, 1, i - 1) \o SubSeq(seq, i + 1, Len(seq))

(***************************************************************************)
(* SpecPage: the analytics services and the analytics page over a store    *)
(***************************************************************************)
MaxPageDocs == 1
MaxFetches == 1
\* a Wednesday, mid-day
PageNow == AddDays(1, 10)
\* outside every offered window, inside the month window only, inside the week
\* window
PageDocDates == {AddDays(PageNow, 0 - 40), AddDays(PageNow, 0 - 5), AddDays(PageNow, 0 - 1)}
PageRanges == {"week", "month"}

InitPageSpec ==
    /\ now = PageNow
    /\ store = <<>>
    /\ reports = <<>>
    /\ call = NoCall
    /\ page = InitPage
    /\ form = NoForm

\* the reports other sessions write while the page is open: submitted ones of
\* each date, and a pending one of the current week
PageDocKinds ==
    {[date |-> d, status |-> "submitted"] : d \in PageDocDates}
    \cup {[date |-> AddDays(PageNow, 0 - 1), status |-> "pending"]}

AddPageDoc ==
    \E id \in (1 .. MaxPageDocs) \ DocIdsOf(store), kind \in PageDocKinds :
        /\ store' = InsertDoc(store,
               MkReport(id, "ann",
                        [i \in DOMAIN DEFAULT_METRICS |->
                            IF DEFAULT_METRICS[i].id = "2"
                            THEN MkEntry("Acres Secured", 2, 5) ELSE DEFAULT_METRICS[i]],
                        kind.date, kind.date, kind.status, FALSE))
        /\ call' = NoCall
        /\ UNCHANGED <<now, reports, page, form>>

\* the services called directly, before the page has started a fetch
CallGetMetricsPerformance ==
    \E tf \in PageRanges :
        /\ page = InitPage
        /\ call' = [op |-> "getMetricsPerformance", timeFrame |-> tf,
                    value |-> getMetricsPerformance(store, tf, now)]
        /\ UNCHANGED <<now, store, reports, page, form>>

CallGetPerformanceByMetric ==
    \E tf \in PageRanges, title \in DefaultTitles :
        /\ page = InitPage
        /\ call' = [op |-> "getPerformanceByMetric", timeFrame |-> tf,
                    metricTitle |-> title,
                    value |-> getPerformanceByMetric(store, tf, title, now)]
        /\ UNCHANGED <<now, store, reports, page, form>>

\* handleTimeRangeChange: a new range re-creates fetchData, and the effect
\* re-arms the debounce timer
HandleTimeRangeChange ==
    \E range \in PageRanges :
        /\ range # page.timeRange
        /\ page' = [page EXCEPT !.timeRange = range, !.timer = TRUE]
        /\ call' = NoCall
        /\ UNCHANGED <<now, store, reports, form>>

\* the debounce timer fires: fetchData starts with the range of its closure;
\* at most limit calls of fetchData are in flight
FetchDataStart(limit) ==
    /\ page.timer
    /\ Len(page.fetches) < limit
    /\ page' = [page EXCEPT !.timer = FALSE, !.isLoading = TRUE,
                            !.fetches = Append(@, [range |-> page.timeRange,
                                                   pc |-> "reports"])]
    /\ call' = NoCall
    /\ UNCHANGED <<now, store, reports, form>>

FetchDataBegin == FetchDataStart(MaxFetches)

\* await getReportsForAnalytics(timeRange) resolves; with reports the
\* achievements are set, without reports the empty chart data is set and
\* fetchData ends; with keep, reports holds the list fetchData has read
FetchDataReportsRead(keep) ==
    \E k \in DOMAIN page.fetches :
        LET f == page.fetches[k]
            rs == getReportsForAnalytics(store, f.range, now)
        IN  /\ f.pc = "reports"
            /\ call' = [op |-> "fetchData.reports", timeFrame |-> f.range, value |-> rs]
            /\ IF Len(rs) > 0
               THEN page' = [page EXCEPT
                               !.achievements = calculateAchievementPercentage(rs),
                               !.fetches[k].pc = "metrics"]
               ELSE page' = [page EXCEPT
                               !.chartData = EmptyChartData,
                               !.achievements = <<>>,
                               !.isLoading = FALSE,
                               !.fetches = RemoveAt(@, k)]
            /\ reports' = IF keep THEN rs ELSE reports
            /\ UNCHANGED <<now, store, form>>

FetchDataReports == FetchDataReportsRead(FALSE)

\* await getMetricsPerformance(timeRange) resolves
FetchDataMetrics ==
    \E k \in DOMAIN page.fetches :
        LET f == page.fetches[k]
        IN  /\ f.pc = "metrics"
            /\ call' = [op |-> "fetchData.metrics", timeFrame |-> f.range]
            /\ page' = [page EXCEPT
                          !.metricsData = <<getMetricsPerformance(store, f.range, now)>>,
                          !.fetches[k].pc = "charts"]
            /\ UNCHANGED <<now, store, reports, form>>

\* await Promise.all(...) resolves; the chart data is set and fetchData ends
FetchDataCharts ==
    \E k \in DOMAIN page.fetches :
        LET f == page.fetches[k]
        IN  /\ f.pc = "charts"
            /\ call' = [op |-> "fetchData.charts", timeFrame |-> f.range]
            /\ page' = [page EXCEPT
                          !.chartData = FetchCharts(store, f.range, now),
                          !.isLoading = FALSE,
                          !.fetches = RemoveAt(@, k)]
            /\ UNCHANGED <<now, store, reports, form>>

NextPage ==
    \/ AddPageDoc
    \/ CallGetMetricsPerformance
    \/ CallGetPerformanceByMetric
    \/ HandleTimeRangeChange
    \/ FetchDataBegin
    \/ FetchDataReports
    \/ FetchDataMetrics
    \/ FetchDataCharts

SpecPage == InitPageSpec /\ [][NextPage]_vars

\* days between the start of a window and today
BackDays(timeFrame) ==
    IF timeFrame = "week" THEN (IF getDay(now) = 0 THEN 6 ELSE getDay(now) - 1)
    ELSE IF timeFrame = "quarter" THEN 90
    ELSE IF timeFrame = "halfYear" THEN 180
    ELSE IF timeFrame = "year" THEN 365
    ELSE 30

\* no submitted report of the store has a date in the window of the range
NoReportInWindow(timeFrame) ==
    \A i \in DOMAIN store :
        store[i].status = "submitted" =>
            /\ ~ ( store[i].weekEndingDate >= StartOfDay(now) - BackDays(timeFrame) * TicksPerDay
                   /\ store[i].weekEndingDate <= now + ((TicksPerDay - 1) - (now % TicksPerDay)) )
            /\ ~ ( store[i].createdAt >= StartOfDay(now) - BackDays(timeFrame) * TicksPerDay
                   /\ store[i].createdAt <= now + ((TicksPerDay - 1) - (now % TicksPerDay)) )

\* C8: with no report in the window, getMetricsPerformance returns empty
\* byDate, totals, averages and completion, getPerformanceByMetric returns an
\* empty series with total, average and completion rate 0, and a fetch of the
\* analytics page leaves an empty series for every metric: no data point is
\* ever made up.
C8_EmptyWindowNoFabrication ==
    /\ ( call.op = "getMetricsPerformance" /\ NoReportInWindow(call.timeFrame) )
       => /\ call.value.byDate = <<>>
          /\ DOMAIN call.value.totals = {}
          /\ DOMAIN call.value.averages = {}
          /\ DOMAIN call.value.completion = {}
    /\ ( call.op = "getPerformanceByMetric" /\ NoReportInWindow(call.timeFrame) )
       => /\ call.value.data = <<>>
          /\ call.value.total = 0
          /\ FracEq(call.value.average, 0)
          /\ FracEq(call.value.completionRate, 0)
    /\ ( call.op = "fetchData.reports" /\ NoReportInWindow(call.timeFrame) )
       => /\ Len(page.chartData) = Len(DEFAULT_METRICS)
          /\ \A i \in DOMAIN page.chartData :
                /\ page.chartData[i].title = DEFAULT_METRICS[i].title
                /\ page.chartData[i].data = <<>>
          /\ DOMAIN page.achievements = {}
    /\ call.op = "getPerformanceByMetric"
       => \A j \in DOMAIN call.value.data :
             \E r \in DOMAIN store :
                /\ store[r].status = "submitted"
                /\ IsoDateKey(store[r].weekEndingDate) = call.value.data[j].date
                /\ HasMetric(store[r], call.metricTitle)
    /\ call.op = "fetchData.charts"
       => \A i \in DOMAIN page.chartData : \A j \in DOMAIN page.chartData[i].data :
             \E r \in DOMAIN store :
                /\ store[r].status = "submitted"
                /\ IsoDateKey(store[r].weekEndingDate) = page.chartData[i].data[j].date
                /\ HasMetric(store[r], page.chartData[i].title)

\* the store holds submitted reports, none in the week window; a fetch for the
\* week range, following one that showed data, has ended with empty series
C8_Witness ==
    /\ call.op = "fetchData.reports"
    /\ call.timeFrame = "week"
    /\ QueryByStatus(store, "submitted") # <<>>
    /\ NoReportInWindow("week")
    /\ page.metricsData # <<>>
    /\ page.chartData = EmptyChartData
    /\ ~page.isLoading

(***************************************************************************)
(* Monthly progress accumulator                                            *)
(***************************************************************************)
RECURSIVE InsertByCreatedAt(_, _)
InsertByCreatedAt(sorted, r) ==
    IF sorted = <<>> THEN <<r>>
    ELSE IF Head(sorted).createdAt <= r.createdAt
         THEN <<Head(sorted)>> \o InsertByCreatedAt(Tail(sorted), r)
         ELSE <<r>> \o sorted

\* orderBy('createdAt', 'asc')
RECURSIVE OrderByCreatedAtAsc(_)
OrderByCreatedAtAsc(rs) ==
    IF rs = <<>> THEN <<>>
    ELSE InsertByCreatedAt(OrderByCreatedAtAsc(SubSeq(rs, 1, Len(rs) - 1)), rs[Len(rs)])

\* new Date(year, month, 1) at 00:00:00.000
FirstDayOfMonth(t) == getMonth(t) * DaysPerMonth * TicksPerDay
\* new Date(year, month + 1, 0) at 23:59:59.999
LastDayOfMonth(t) == (getMonth(t) + 1) * DaysPerMonth * TicksPerDay - 1

\* a month query without the status condition
getCurrentMonthReportsAnyStatus(st, userName, t) ==
    LET Matches(d) == /\ d.userId = userName
                      /\ d.createdAt >= FirstDayOfMonth(t)
                      /\ d.createdAt <= LastDayOfMonth(t)
    IN  OrderByCreatedAtAsc(SelectSeq(st, Matches))

getCurrentMonthReports(st, userName, t) ==
    LET Matches(d) == /\ d.userId = userName
                      /\ d.createdAt >= FirstDayOfMonth(t)
                      /\ d.createdAt <= LastDayOfMonth(t)
                      /\ d.status = "submitted"
    IN  OrderByCreatedAtAsc(SelectSeq(st, Matches))

\* an accumulator that keeps the value of the last report only
MonthlyMetricLastValue(progress, metric) ==
    IF metric.frequency = "Monthly"
    THEN Put(progress, metric.title,
             [value |-> IF HasNumber(metric, "value") THEN metric.value ELSE 0,
              targetValue |-> IF HasNumber(metric, "targetValue")
                              THEN metric.targetValue ELSE 0,
              frequency |-> "Monthly"])
    ELSE progress

\* the body of "for (const metric of report.metrics)"
MonthlyMetric(progress, metric) ==
    IF metric.frequency = "Monthly"
    THEN LET old == IF metric.title \in DOMAIN progress THEN progress[metric.title]
                    ELSE [value |-> 0,
                          targetValue |-> IF HasNumber(metric, "targetValue")
                                          THEN metric.targetValue ELSE 0,
                          frequency |-> "Monthly"]
         IN  Put(progress, metric.title,
                 [old EXCEPT !.value = @ + (IF HasNumber(metric, "value")
                                            THEN metric.value ELSE 0)])
    ELSE progress

RECURSIVE MonthlyMetrics(_, _)
MonthlyMetrics(progress, metrics) ==
    IF metrics = <<>> THEN progress
    ELSE MonthlyMetrics(MonthlyMetric(progress, Head(metrics)), Tail(metrics))

RECURSIVE MonthlyReports(_, _)
MonthlyReports(progress, rs) ==
    IF rs = <<>> THEN progress
    ELSE MonthlyReports(MonthlyMetrics(progress, Head(rs).metrics), Tail(rs))

calculateMonthlyProgress(st, userName, t) ==
    MonthlyReports(<<>>, getCurrentMonthReports(st, userName, t))

(***************************************************************************)
(* Editing form: pacing                                                    *)
(***************************************************************************)
\* Math.floor((today.getDate() - 1) / 7) + 1
getCurrentWeekOfMonth(t) == ((getDate(t) - 1) \div DaysPerWeek) + 1

\* Math.ceil(a / b) for a >= 0 and b > 0
CeilDiv(a, b) == (a + b - 1) \div b

\* monthlyProgress[metric.title]?.value || 0
PreviousProgress(monthlyProgress, title) ==
    IF title \in DOMAIN monthlyProgress THEN monthlyProgress[title].value ELSE 0

\* a suggestion that counts one week too many as left
getSuggestedWeeklyValueSixWeeks(metric, monthlyProgress, t) ==
    IF metric.frequency # "Monthly" THEN 0
    ELSE LET targetValue == IF HasNumber(metric, "targetValue") THEN metric.targetValue ELSE 0
             remaining == Max(0, targetValue - PreviousProgress(monthlyProgress, metric.title))
             weeksLeft == 6 - getCurrentWeekOfMonth(t)
         IN  IF weeksLeft <= 0 THEN 0 ELSE CeilDiv(remaining, weeksLeft)

getSuggestedWeeklyValue(metric, monthlyProgress, t) ==
    IF metric.frequency # "Monthly" THEN 0
    ELSE LET targetValue == IF HasNumber(metric, "targetValue") THEN metric.targetValue ELSE 0
             weekNumber == getCurrentWeekOfMonth(t)
             previousProgress == PreviousProgress(monthlyProgress, metric.title)
             remaining == Max(0, targetValue - previousProgress)
             weeksLeft == 5 - weekNumber
         IN  IF weeksLeft <= 0 THEN 0 ELSE CeilDiv(remaining, weeksLeft)

(***************************************************************************)
(* SpecSuggest: getSuggestedWeeklyValue on every day of a month            *)
(***************************************************************************)
MaxSuggestDay == 30
MaxPriorTotal == 6

\* the form as it stands for a pending report whose prior monthly total is p
SuggestForm(p) ==
    [open |-> TRUE,
     pendingReport |-> MkReport(1, "ann", DEFAULT_METRICS, 0, 0, "pending", FALSE),
     name |-> "ann", reportText |-> "", metrics |-> DEFAULT_METRICS,
     monthlyProgress |->
        IF p = 0 THEN <<>>
        ELSE Put(<<>>, "Acres Secured",
                 [value |-> p, targetValue |-> 5, frequency |-> "Monthly"])]

InitSuggest ==
    /\ now \in {AddDays(1, d) : d \in 0 .. MaxSuggestDay}
    /\ store = <<>>
    /\ reports = <<>>
    /\ call = NoCall
    /\ page = InitPage
    /\ form \in {SuggestForm(p) : p \in 0 .. MaxPriorTotal}

\* the form renders a metric card and computes its suggested value
CallGetSuggestedWeeklyValue ==
    /\ form.open
    /\ \E i \in DOMAIN form.metrics :
          call' = [op |-> "getSuggestedWeeklyValue", metric |-> form.metrics[i],
                   at |-> now,
                   value |-> getSuggestedWeeklyValue(form.metrics[i],
                                                     form.monthlyProgress, now)]
    /\ UNCHANGED <<now, store, reports, page, form>>

NextSuggest == CallGetSuggestedWeeklyValue

SpecSuggest == InitSuggest /\ [][NextSuggest]_vars

\* the prior accumulated monthly total the form holds for a metric
PriorAccumulated(title) ==
    IF title \in DOMAIN form.monthlyProgress THEN form.monthlyProgress[title].value ELSE 0

\* C9: for a Monthly metric the suggested value is 0 when the week of the
\* month is 5 or more (day 29 and later) and 0 when the prior accumulated
\* total has reached the target, on every day of the month.
C9_SuggestedZero ==
    ( call.op = "getSuggestedWeeklyValue" /\ call.metric.frequency = "Monthly" )
    => /\ getDate(call.at) > 4 * DaysPerWeek => call.value = 0
       /\ PriorAccumulated(call.metric.title) >= call.metric.targetValue
              => call.value = 0

\* day 29 or later with part of the target still open: the suggestion is 0
C9_Witness ==
    /\ call.op = "getSuggestedWeeklyValue"
    /\ call.metric.title = "Acres Secured"
    /\ getDate(call.at) = 30
    /\ PriorAccumulated("Acres Secured") = 2
    /\ call.value = 0

\* before day 29 with the target already reached: the suggestion is 0
C9_WitnessTargetReached ==
    /\ call.op = "getSuggestedWeeklyValue"
    /\ call.metric.title = "Acres Secured"
    /\ getDate(call.at) = 10
    /\ PriorAccumulated("Acres Secured") = 6
    /\ call.value = 0

\* C22: on every day of the month the week-of-month number the form uses is
\* in 1..4, so the weeks remaining, 5 - week, are at least 1 and the expected
\* progress fraction week / 4 is at most 1.
C22_WeekOfMonthOneToFour ==
    call.op = "getSuggestedWeeklyValue" =>
        /\ getCurrentWeekOfMonth(call.at) \in 1 .. 4
        /\ 5 - getCurrentWeekOfMonth(call.at) >= 1
        /\ getCurrentWeekOfMonth(call.at) <= 4

(***************************************************************************)
(* Weekly report life cycle: create, edit, submit                          *)
(***************************************************************************)
\* getWeekRange: Monday 00:00:00.000 to Sunday 23:59:59.999 around t
getWeekRange(t) ==
    LET day == getDay(t)
        daysToMonday == IF day = 0 THEN 6 ELSE day - 1
        start == StartOfDay(AddDays(t, 0 - daysToMonday))
    IN  [start |-> start, end |-> EndOfDay(AddDays(start, 6))]

RECURSIVE InsertByWeekEnding(_, _)
InsertByWeekEnding(sorted, r) ==
    IF sorted = <<>> THEN <<r>>
    ELSE IF Head(sorted).weekEndingDate <= r.weekEndingDate
         THEN <<Head(sorted)>> \o InsertByWeekEnding(Tail(sorted), r)
         ELSE <<r>> \o sorted

\* the order in which a range query on weekEndingDate returns documents
RECURSIVE OrderByWeekEndingAsc(_)
OrderByWeekEndingAsc(rs) ==
    IF rs = <<>> THEN <<>>
    ELSE InsertByWeekEnding(OrderByWeekEndingAsc(SubSeq(rs, 1, Len(rs) - 1)), rs[Len(rs)])

\* limit(10)
WeekQueryLimit == 10

\* zero or one report: the first non-archived report whose weekEndingDate
\* lies between Sunday 00:00:00.000 and Saturday 23:59:59.999 around t
getCurrentWeekAnyReportGlobal(st, t) ==
    LET weekStartDate == StartOfDay(AddDays(t, 0 - getDay(t)))
        weekEndDate == EndOfDay(AddDays(weekStartDate, 6))
        InWeek(d) == d.weekEndingDate >= weekStartDate /\ d.weekEndingDate <= weekEndDate
        found == OrderByWeekEndingAsc(SelectSeq(st, InWeek))
        docs == SubSeq(found, 1, Min(Len(found), WeekQueryLimit))
        NotArchived(d) == d.archived # TRUE
        live == SelectSeq(docs, NotArchived)
    IN  IF live = <<>> THEN <<>> ELSE <<Head(live)>>

\* the document addDoc writes for a new pending report
createPendingReport(id, name, t) ==
    MkReport(id, name, DEFAULT_METRICS, t, getWeekRange(t).end, "pending", FALSE)

\* updateDoc(reportRef, fields) on the document with the given id
UpdateDoc(st, id, fields) ==
    [i \in DOMAIN st |->
        IF st[i].id = id
        THEN [k \in DOMAIN st[i] |-> IF k \in DOMAIN fields THEN fields[k] ELSE st[i][k]]
        ELSE st[i]]

submitPendingReport(st, reportId, name, reportText, metrics) ==
    UpdateDoc(st, reportId,
              [userId |-> name, reportText |-> reportText, metrics |-> metrics,
               status |-> "submitted"])

\* getReportById: zero or one document
getReportById(st, id) ==
    LET HasId(d) == d.id = id
    IN  SelectSeq(st, HasId)

\* metric.targetValue || getDefaultTargetValue(metric.title), for every metric
FormMetrics(metrics) ==
    IF metrics = <<>> THEN DEFAULT_METRICS
    ELSE [i \in DOMAIN metrics |->
            LET m == metrics[i]
                d == FindDefaultMetric(m.title)
                dflt == IF d # <<>> /\ HasNumber(d[1], "targetValue")
                        THEN d[1].targetValue ELSE 0
                tv == IF HasNumber(m, "targetValue") /\ m.targetValue # 0
                      THEN m.targetValue ELSE dflt
            IN  [k \in DOMAIN m \cup {"targetValue"} |->
                    IF k = "targetValue" THEN tv ELSE m[k]]]

\* initializeForm for a pending report, monthly progress loaded
initializeForm(st, pendingReport, t) ==
    [open |-> TRUE,
     pendingReport |-> pendingReport,
     name |-> pendingReport.userId,
     reportText |-> pendingReport.reportText,
     metrics |-> FormMetrics(pendingReport.metrics),
     monthlyProgress |-> IF pendingReport.userId # ""
                         THEN calculateMonthlyProgress(st, pendingReport.userId, t)
                         ELSE <<>>]

\* String.prototype.trim on the texts the form is given
Trim(text) == IF text = " " THEN "" ELSE text

(***************************************************************************)
(* SpecForm: one report a week is created, edited and submitted            *)
(***************************************************************************)
MaxFormWeek == 3
MaxFormDocs == 4
\* the name kept in localStorage
UserName == "ann"
FormValues == {0, 1, 2}
FormMetricIds == {"2"}
FormTexts == {"", " ", "summary"}

InitForm ==
    /\ now = AddDays(1, 0)
    /\ store = <<>>
    /\ reports = <<>>
    /\ call = NoCall
    /\ page = InitPage
    /\ form = NoForm

\* the next Sunday, up to the Sunday of week limit
AdvanceWeekUpTo(limit) ==
    /\ DayOf(now) < DaysPerWeek * limit
    /\ now' = AddDays(now, DaysPerWeek)
    /\ UNCHANGED <<store, reports, call, page, form>>

AdvanceWeek == AdvanceWeekUpTo(MaxFormWeek)

\* Header.handleCreateReport: the dialog when a report exists for the week,
\* else a new pending report and navigation to its edit page; the collection
\* holds at most maxDocs documents
HandleCreateReportWithin(maxDocs) ==
    LET existingReport == getCurrentWeekAnyReportGlobal(store, now)
        free == (1 .. maxDocs) \ DocIdsOf(store)
    IN  IF existingReport # <<>>
        THEN /\ call' = [op |-> "getCurrentWeekAnyReportGlobal", at |-> now,
                         value |-> existingReport]
             /\ UNCHANGED <<now, store, reports, page, form>>
        ELSE /\ free # {}
             /\ LET id == CHOOSE i \in free : \A j \in free : i <= j
                    pendingReport == createPendingReport(id, UserName, now)
                IN  /\ store' = InsertDoc(store, pendingReport)
                    /\ call' = [op |-> "createPendingReport", at |-> now,
                                value |-> <<pendingReport>>]
             /\ form' = NoForm
             /\ UNCHANGED <<now, reports, page>>

HandleCreateReport == HandleCreateReportWithin(MaxFormDocs)

\* the edit page loads a pending report and the form initialises for it
OpenEditForm ==
    \E id \in DocIdsOf(store) :
        LET found == getReportById(store, id)
        IN  /\ found # <<>>
            /\ found[1].status = "pending"
            /\ form' = initializeForm(store, found[1], now)
            /\ call' = [op |-> "calculateMonthlyProgress", userId |-> found[1].userId,
                        at |-> now, value |-> form'.monthlyProgress]
            /\ UNCHANGED <<now, store, reports, page>>

\* a value change that leaves the completed flag as it was
SetMetricValueOnly(metrics, id, value) ==
    [i \in DOMAIN metrics |->
        IF metrics[i].id = id THEN [metrics[i] EXCEPT !.value = value] ELSE metrics[i]]

\* prevMetrics.map(...) of handleMetricValueChange
SetMetricValue(metrics, id, value) ==
    [i \in DOMAIN metrics |->
        IF metrics[i].id = id
        THEN [metrics[i] EXCEPT
                !.value = value,
                !.completed = (value >= (IF HasNumber(metrics[i], "targetValue")
                                         THEN metrics[i].targetValue ELSE 0))]
        ELSE metrics[i]]

HandleMetricValueChange ==
    \E id \in FormMetricIds, value \in FormValues :
        /\ form.open
        /\ form' = [form EXCEPT !.metrics = SetMetricValue(@, id, value)]
        /\ form' # form
        /\ UNCHANGED <<now, store, reports, call, page>>

SetReportText ==
    \E text \in FormTexts :
        /\ form.open
        /\ text # form.reportText
        /\ form' = [form EXCEPT !.reportText = text]
        /\ UNCHANGED <<now, store, reports, call, page>>

\* handleSubmit with a pending report: both texts present after trimming,
\* the report is updated to submitted and the form navigates home
HandleSubmit ==
    /\ form.open
    /\ Trim(form.name) # ""
    /\ Trim(form.reportText) # ""
    /\ getReportById(store, form.pendingReport.id) # <<>>
    /\ store' = submitPendingReport(store, form.pendingReport.id, form.name,
                                    form.reportText, form.metrics)
    /\ call' = [op |-> "submitPendingReport", at |-> now,
                value |-> getReportById(store', form.pendingReport.id)]
    /\ form' = NoForm
    /\ UNCHANGED <<now, reports, page>>

NextForm ==
    \/ AdvanceWeek
    \/ HandleCreateReport
    \/ OpenEditForm
    \/ HandleMetricValueChange
    \/ SetReportText
    \/ HandleSubmit
    \/ CallGetSuggestedWeeklyValue

SpecForm == InitForm /\ [][NextForm]_vars

\* the "Acres Secured" values of the submitted reports created in week w of
\* the current month
AcresSubmittedInWeek(w) ==
    {store[i].metrics[j].value :
        i \in {k \in DOMAIN store :
                 /\ store[k].status = "submitted"
                 /\ getMonth(store[k].createdAt) = getMonth(now)
                 /\ (getDate(store[k].createdAt) - 1) \div DaysPerWeek = w - 1},
        j \in {2}}

SubmittedThisMonth ==
    {i \in DOMAIN store : /\ store[i].status = "submitted"
                          /\ store[i].userId = UserName
                          /\ getMonth(store[i].createdAt) = getMonth(now)}

\* three reports submitted in weeks 1, 2, 3 of the month with values 1, 2, 1
ThreeOfFourSubmitted ==
    /\ Cardinality(SubmittedThisMonth) = 3
    /\ AcresSubmittedInWeek(1) = {1}
    /\ AcresSubmittedInWeek(2) = {2}
    /\ AcresSubmittedInWeek(3) = {1}

\* C3: once the reports of weeks 1, 2, 3 of a month are submitted with
\* "Acres Secured" values 1, 2, 1 (target 5), calculateMonthlyProgress
\* returns a running total of 4 for "Acres Secured", and in week 4 of that
\* month getSuggestedWeeklyValue returns 1 for it.
C3_MonthlyPacing ==
    /\ ( call.op = "calculateMonthlyProgress" /\ call.at = now
         /\ call.userId = UserName /\ ThreeOfFourSubmitted )
       => /\ "Acres Secured" \in DOMAIN call.value
          /\ call.value["Acres Secured"].value = 4
          /\ call.value["Acres Secured"].targetValue = 5
    /\ ( call.op = "getSuggestedWeeklyValue" /\ call.at = now
         /\ call.metric.title = "Acres Secured" /\ ThreeOfFourSubmitted
         /\ getDate(now) > 3 * DaysPerWeek /\ getDate(now) <= 4 * DaysPerWeek )
       => call.value = 1

\* week 4: the fourth report is open in the form after three submissions
\* and its suggested "Acres Secured" value has been computed
C3_Witness ==
    /\ call.op = "getSuggestedWeeklyValue" /\ call.at = now
    /\ call.metric.title = "Acres Secured"
    /\ ThreeOfFourSubmitted
    /\ getDate(now) = 22
    /\ form.open
    /\ form.pendingReport.createdAt = now
    /\ form.monthlyProgress["Acres Secured"].value = 4
    /\ call.value = 1

(***************************************************************************)
(* Failing reads: the try/catch of every service                           *)
(***************************************************************************)
\* the outcome of an awaited call: a value, or a thrown error
Returned(v) == [threw |-> FALSE, value |-> v]
Thrown == [threw |-> TRUE]

\* getDocs(q): the documents of the collection, or a rejected read
getDocs(st, ok) == IF ok THEN Returned(st) ELSE Thrown

\* getReportsByDateRange with its catch: return []
getReportsByDateRangeCatch(read, startDate, endDate) ==
    IF read.threw THEN Returned(<<>>)
    ELSE Returned(getReportsByDateRange(read.value, startDate, endDate))

\* getReportsForAnalytics with its catch: return []
getReportsForAnalyticsCatch(read, timeFrame, t) ==
    LET range == getDateRange(timeFrame, t)
        inner == getReportsByDateRangeCatch(read, range.startDate, range.endDate)
    IN  IF inner.threw THEN Returned(<<>>) ELSE inner

\* { byDate: [], totals: {}, averages: {}, completion: {} }
EmptyMetricsPerformance ==
    [byDate |-> <<>>, totals |-> <<>>, averages |-> <<>>, completion |-> <<>>]

\* getMetricsPerformance with its catch
getMetricsPerformanceCatch(read, timeFrame, t) ==
    LET rs == getReportsForAnalyticsCatch(read, timeFrame, t)
    IN  IF rs.threw THEN Returned(EmptyMetricsPerformance)
        ELSE Returned(AggregateMetrics(rs.value))

\* getPerformanceByMetric with its catch
getPerformanceByMetricCatch(read, timeFrame, metricTitle, t) ==
    LET rs == getReportsForAnalyticsCatch(read, timeFrame, t)
    IN  IF rs.threw THEN Returned(EmptyPerformance)
        ELSE Returned(BuildSeries(rs.value, metricTitle))

\* getCurrentMonthReports with its catch: throw error
getCurrentMonthReportsCatch(read, userName, t) ==
    IF read.threw THEN Thrown
    ELSE Returned(getCurrentMonthReports(read.value, userName, t))

\* a calculateMonthlyProgress whose catch throws the error on
calculateMonthlyProgressRethrow(read, userName, t) ==
    LET monthlyReports == getCurrentMonthReportsCatch(read, userName, t)
    IN  IF monthlyReports.threw THEN Thrown
        ELSE Returned(MonthlyReports(<<>>, monthlyReports.value))

\* calculateMonthlyProgress with its catch: return {}
calculateMonthlyProgressCatch(read, userName, t) ==
    LET monthlyReports == getCurrentMonthReportsCatch(read, userName, t)
    IN  IF monthlyReports.threw THEN Returned(<<>>)
        ELSE Returned(MonthlyReports(<<>>, monthlyReports.value))

(***************************************************************************)
(* SpecFail: the aggregation services over reads that may fail             *)
(***************************************************************************)
MaxFailDocs == 2

InitFail ==
    /\ now = PageNow
    /\ store = <<>>
    /\ reports = <<>>
    /\ call = NoCall
    /\ page = InitPage
    /\ form = NoForm

\* a report written earlier
AddFailDoc ==
    \E id \in (1 .. MaxFailDocs) \ DocIdsOf(store), kind \in PageDocKinds :
        /\ store' = InsertDoc(store,
               MkReport(id, "ann",
                        [i \in DOMAIN DEFAULT_METRICS |->
                            IF DEFAULT_METRICS[i].id = "2"
                            THEN MkEntry("Acres Secured", 2, 5) ELSE DEFAULT_METRICS[i]],
                        kind.date, kind.date, kind.status, FALSE))
        /\ call' = NoCall
        /\ UNCHANGED <<now, reports, page, form>>

CallGetReportsByDateRangeCatch ==
    \E ok \in BOOLEAN, tf \in PageRanges :
        LET range == getDateRange(tf, now)
        IN  /\ call' = [op |-> "getReportsByDateRange", readOk |-> ok, timeFrame |-> tf,
                        outcome |-> getReportsByDateRangeCatch(getDocs(store, ok),
                                        range.startDate, range.endDate)]
            /\ UNCHANGED <<now, store, reports, page, form>>

CallGetReportsForAnalyticsCatch ==
    \E ok \in BOOLEAN, tf \in PageRanges :
        /\ call' = [op |-> "getReportsForAnalytics", readOk |-> ok, timeFrame |-> tf,
                    outcome |-> getReportsForAnalyticsCatch(getDocs(store, ok), tf, now)]
        /\ UNCHANGED <<now, store, reports, page, form>>

CallGetMetricsPerformanceCatch ==
    \E ok \in BOOLEAN, tf \in PageRanges :
        /\ call' = [op |-> "getMetricsPerformance", readOk |-> ok, timeFrame |-> tf,
                    outcome |-> getMetricsPerformanceCatch(getDocs(store, ok), tf, now)]
        /\ UNCHANGED <<now, store, reports, page, form>>

CallGetPerformanceByMetricCatch ==
    \E ok \in BOOLEAN, tf \in PageRanges, title \in DefaultTitles :
        /\ call' = [op |-> "getPerformanceByMetric", readOk |-> ok, timeFrame |-> tf,
                    metricTitle |-> title,
                    outcome |-> getPerformanceByMetricCatch(getDocs(store, ok), tf,
                                                            title, now)]
        /\ UNCHANGED <<now, store, reports, page, form>>

CallCalculateMonthlyProgressCatch ==
    \E ok \in BOOLEAN :
        /\ call' = [op |-> "calculateMonthlyProgress", readOk |-> ok, timeFrame |-> "month",
                    outcome |-> calculateMonthlyProgressCatch(getDocs(store, ok),
                                                              "ann", now)]
        /\ UNCHANGED <<now, store, reports, page, form>>

NextFail ==
    \/ AddFailDoc
    \/ CallGetReportsByDateRangeCatch
    \/ CallGetReportsForAnalyticsCatch
    \/ CallGetMetricsPerformanceCatch
    \/ CallGetPerformanceByMetricCatch
    \/ CallCalculateMonthlyProgressCatch

SpecFail == InitFail /\ [][NextFail]_vars

\* C11: when the read of the report store fails, no aggregation service
\* throws: getReportsByDateRange and getReportsForAnalytics return [],
\* getMetricsPerformance returns empty byDate, totals, averages and
\* completion, getPerformanceByMetric returns an empty series with zeros, and
\* calculateMonthlyProgress returns {}.
C11_FailedReadDegradesToEmpty ==
    ( call.op # "none" /\ ~ call.readOk )
    => /\ ~ call.outcome.threw
       /\ call.op \in {"getReportsByDateRange", "getReportsForAnalytics"}
          => call.outcome.value = <<>>
       /\ call.op = "getMetricsPerformance"
          => /\ call.outcome.value.byDate = <<>>
             /\ DOMAIN call.outcome.value.totals = {}
             /\ DOMAIN call.outcome.value.averages = {}
             /\ DOMAIN call.outcome.value.completion = {}
       /\ call.op = "getPerformanceByMetric"
          => /\ call.outcome.value.data = <<>>
             /\ call.outcome.value.total = 0
             /\ FracEq(call.outcome.value.average, 0)
             /\ FracEq(call.outcome.value.completionRate, 0)
       /\ call.op = "calculateMonthlyProgress"
          => DOMAIN call.outcome.value = {}

\* a submitted report of this month is stored, the read fails, and
\* calculateMonthlyProgress has returned {}
C11_Witness ==
    /\ call.op = "calculateMonthlyProgress"
    /\ ~ call.readOk
    /\ \E i \in DOMAIN store : /\ store[i].status = "submitted"
                               /\ getMonth(store[i].createdAt) = getMonth(now)
    /\ ~ call.outcome.threw
    /\ DOMAIN call.outcome.value = {}

(***************************************************************************)
(* SpecStale: overlapping fetches of the analytics page, fixed store       *)
(***************************************************************************)
MaxStaleFetches == 2

\* the stores the page may be opened over: empty, or one report of one kind
StaleStores ==
    {<<>>} \cup
    {<<MkReport(1, "ann",
                [i \in DOMAIN DEFAULT_METRICS |->
                    IF DEFAULT_METRICS[i].id = "2"
                    THEN MkEntry("Acres Secured", 2, 5) ELSE DEFAULT_METRICS[i]],
                kind.date, kind.date, kind.status, FALSE)>> : kind \in PageDocKinds}

InitStale ==
    /\ now = PageNow
    /\ store \in StaleStores
    /\ reports = <<>>
    /\ call = NoCall
    /\ page = InitPage
    /\ form = NoForm

FetchDataBeginOverlapping == FetchDataStart(MaxStaleFetches)

NextStale ==
    \/ HandleTimeRangeChange
    \/ FetchDataBeginOverlapping
    \/ FetchDataReports
    \/ FetchDataMetrics
    \/ FetchDataCharts

SpecStale == InitStale /\ [][NextStale]_vars

\* what a fetch for the range computes over the store
ComputedFor(range) ==
    LET rs == getReportsForAnalytics(store, range, now)
    IN  IF Len(rs) > 0
        THEN [chartData |-> FetchCharts(store, range, now),
              achievements |-> calculateAchievementPercentage(rs)]
        ELSE [chartData |-> EmptyChartData, achievements |-> <<>>]

\* no fetch is pending or in flight and the loading flag is off
LoadingFinished ==
    /\ ~ page.timer
    /\ page.fetches = <<>>
    /\ ~ page.isLoading

\* C12: once loading has finished, the chart data and the achievements on
\* display are those computed for the selected time range; the results of a
\* fetch issued for another range have been discarded.
C12_StaleFetchDiscarded ==
    LoadingFinished
    => /\ page.chartData = ComputedFor(page.timeRange).chartData
       /\ page.achievements = ComputedFor(page.timeRange).achievements

(***************************************************************************)
(* Report life cycle across sessions: save, reopen, archive, delete        *)
(***************************************************************************)
\* a save that writes the whole document afresh, archived flag included
saveEditsWholeDocument(st, f) ==
    IF getReportById(st, f.pendingReport.id) = <<>> THEN st
    ELSE UpdateDoc(st, f.pendingReport.id,
                   [userId |-> f.name, reportText |-> f.reportText,
                    metrics |-> f.metrics, status |-> "pending", archived |-> FALSE])

\* saveEdits: updateReport with the form's fields and status pending; a
\* failed update is caught and logged
saveEdits(st, f) ==
    IF getReportById(st, f.pendingReport.id) = <<>> THEN st
    ELSE UpdateDoc(st, f.pendingReport.id,
                   [userId |-> f.name, reportText |-> f.reportText,
                    metrics |-> f.metrics, status |-> "pending"])

revertToPending(st, reportId) == UpdateDoc(st, reportId, [status |-> "pending"])

archiveReport(st, reportId) == UpdateDoc(st, reportId, [archived |-> TRUE])

deleteReport(st, reportId) ==
    LET Other(d) == d.id # reportId
    IN  SelectSeq(st, Other)

\* isCurrentWeek of the detail page: Sunday 00:00:00.000 to Saturday 23:59:59.999
isCurrentWeek(date, t) ==
    LET startOfWeek == StartOfDay(AddDays(t, 0 - getDay(t)))
        endOfWeek == EndOfDay(AddDays(startOfWeek, 6))
    IN  date >= startOfWeek /\ date <= endOfWeek

(***************************************************************************)
(* SpecLife: one report edited by two sessions, reopened, archived         *)
(***************************************************************************)
MaxLifeWeek == 1

\* the pages open besides the editing form: the editing form of a second
\* session and a report detail page
InitLifePages == [peer |-> NoForm, detail |-> <<>>]

InitLife ==
    /\ now = AddDays(1, 0)
    /\ store = <<>>
    /\ reports = <<>>
    /\ call = NoCall
    /\ page = InitLifePages
    /\ form = NoForm

AdvanceLifeWeek == AdvanceWeekUpTo(MaxLifeWeek)

\* handleCancel: the edits are saved and the form navigates home
HandleCancel ==
    /\ form.open
    /\ store' = saveEdits(store, form)
    /\ call' = [op |-> "saveEdits", id |-> form.pendingReport.id, at |-> now]
    /\ form' = NoForm
    /\ UNCHANGED <<now, reports, page>>

\* the edit page of the second session loads a pending report
PeerOpenEditForm ==
    \E id \in DocIdsOf(store) :
        LET found == getReportById(store, id)
        IN  /\ found # <<>>
            /\ found[1].status = "pending"
            /\ page' = [page EXCEPT !.peer = initializeForm(store, found[1], now)]
            /\ call' = [op |-> "getReportById", id |-> id, at |-> now]
            /\ UNCHANGED <<now, store, reports, form>>

\* handleCancel in the second session
PeerHandleCancel ==
    /\ page.peer.open
    /\ store' = saveEdits(store, page.peer)
    /\ call' = [op |-> "saveEdits", id |-> page.peer.pendingReport.id, at |-> now]
    /\ page' = [page EXCEPT !.peer = NoForm]
    /\ UNCHANGED <<now, reports, form>>

\* the detail page loads a report and renders; the reopen button is rendered
\* when the report is submitted and of the current week
OpenReportDetail ==
    \E id \in DocIdsOf(store) :
        LET found == getReportById(store, id)
        IN  /\ found # <<>>
            /\ page' = [page EXCEPT !.detail =
                          <<[report |-> found[1],
                             showReopen |-> (found[1].status = "submitted"
                                             /\ isCurrentWeek(found[1].weekEndingDate, now))]>>]
            /\ call' = [op |-> "getReportById", id |-> id, at |-> now]
            /\ UNCHANGED <<now, store, reports, form>>

\* handleRevertToPending: the button is pressed on the page as rendered
HandleRevertToPending ==
    /\ page.detail # <<>>
    /\ page.detail[1].showReopen
    /\ getReportById(store, page.detail[1].report.id) # <<>>
    /\ store' = revertToPending(store, page.detail[1].report.id)
    /\ call' = [op |-> "revertToPending", id |-> page.detail[1].report.id, at |-> now]
    /\ page' = [page EXCEPT !.detail = <<>>]
    /\ UNCHANGED <<now, reports, form>>

NextLife ==
    \/ AdvanceLifeWeek
    \/ HandleCreateReport
    \/ OpenEditForm
    \/ SetReportText
    \/ HandleSubmit
    \/ HandleCancel
    \/ PeerOpenEditForm
    \/ PeerHandleCancel
    \/ OpenReportDetail
    \/ HandleRevertToPending

SpecLife == InitLife /\ [][NextLife]_vars

(***************************************************************************)
(* SpecArchive: create, save, submit, reopen, archive and delete           *)
(***************************************************************************)
MaxArchiveDocs == 1

HandleCreateReportArchive == HandleCreateReportWithin(MaxArchiveDocs)

\* ReportList.handleArchive
HandleArchive ==
    \E id \in DocIdsOf(store) :
        /\ getReportById(store, id)[1].archived # TRUE
        /\ store' = archiveReport(store, id)
        /\ call' = [op |-> "archiveReport", id |-> id, at |-> now]
        /\ UNCHANGED <<now, reports, page, form>>

\* ReportList.handleDelete
HandleDelete ==
    \E id \in DocIdsOf(store) :
        /\ store' = deleteReport(store, id)
        /\ call' = [op |-> "deleteReport", id |-> id, at |-> now]
        /\ UNCHANGED <<now, reports, page, form>>

NextArchive ==
    \/ HandleCreateReportArchive
    \/ OpenEditForm
    \/ SetReportText
    \/ HandleSubmit
    \/ HandleCancel
    \/ OpenReportDetail
    \/ HandleRevertToPending
    \/ HandleArchive
    \/ HandleDelete

SpecArchive == InitLife /\ [][NextArchive]_vars

\* the stored report with the id, in a store that has it
DocOf(st, id) == getReportById(st, id)[1]

\* C13: the status of a stored report changes only from pending to submitted
\* by a form submit, or from submitted to pending by a reopen made while the
\* report's weekEndingDate lies in the current Sunday-Saturday week; saving
\* edits never moves a submitted report back to pending.
C13_StatusTransitions ==
    [][ \A id \in DocIdsOf(store) \cap DocIdsOf(store') :
          DocOf(store, id).status # DocOf(store', id).status
          => \/ /\ DocOf(store, id).status = "pending"
                /\ DocOf(store', id).status = "submitted"
                /\ call'.op = "submitPendingReport"
             \/ /\ DocOf(store, id).status = "submitted"
                /\ DocOf(store', id).status = "pending"
                /\ call'.op = "revertToPending"
                /\ isCurrentWeek(DocOf(store, id).weekEndingDate, now) ]_vars

\* C14: a report whose archived flag is true keeps it true in every step, and
\* a report that enters the store has archived = false.
C14_ArchivedOneWay ==
    [][ /\ \A id \in DocIdsOf(store) \cap DocIdsOf(store') :
              DocOf(store, id).archived = TRUE => DocOf(store', id).archived = TRUE
        /\ \A id \in DocIdsOf(store') \ DocIdsOf(store) :
              DocOf(store', id).archived = FALSE ]_vars

\* an archived report has been saved from an editing form that was opened
\* before it was archived
C14_Witness ==
    /\ call.op = "saveEdits"
    /\ call.id \in DocIdsOf(store)
    /\ DocOf(store, call.id).archived = TRUE
    /\ DocOf(store, call.id).reportText = "summary"

(***************************************************************************)
(* Dashboard: scheduled creation of the weekly report                      *)
(***************************************************************************)
\* Date.getHours(): tick 0 is 00:00, the last tick of a day is 23:59:59.999
getHours(t) ==
    LET k == t % TicksPerDay
    IN  IF k = TicksPerDay - 1 THEN 23 ELSE (k * 24) \div TicksPerDay

\* a trigger that looks at the day of the week only
shouldCreateNewReportAnyHour(t) == getDay(t) = 1

\* day === 1 && hour >= 6
shouldCreateNewReport(t) == getDay(t) = 1 /\ getHours(t) >= 6

\* Home.checkForPendingReport; the result is the pending report the
\* dashboard shows and the report it created, each as zero or one entry
checkForPendingReport(st, storedName, id, t) ==
    IF storedName = ""
    THEN [pendingReport |-> <<>>, created |-> <<>>]
    ELSE LET existingReport == getCurrentWeekAnyReportGlobal(st, t)
             shown == IF existingReport # <<>> /\ existingReport[1].status = "pending"
                      THEN existingReport ELSE <<>>
         IN  IF existingReport = <<>> /\ shouldCreateNewReport(t)
             THEN [pendingReport |-> <<createPendingReport(id, storedName, t)>>,
                   created |-> <<createPendingReport(id, storedName, t)>>]
             ELSE [pendingReport |-> shown, created |-> <<>>]

(***************************************************************************)
(* SpecCreate: create requests that run one at a time                      *)
(***************************************************************************)
MaxCreateDay == 1
MaxCreateDocs == 2

\* the dashboard of a browser that has no name stored yet
InitDashboard == [userName |-> "", pendingReport |-> <<>>]

InitCreate ==
    /\ now = 0
    /\ store = <<>>
    /\ reports = <<>>
    /\ call = NoCall
    /\ page = InitDashboard
    /\ form = NoForm

CreateTick ==
    /\ DayOf(now + 1) <= MaxCreateDay
    /\ now' = now + 1
    /\ UNCHANGED <<store, reports, call, page, form>>

\* handleSaveName
HandleSaveName ==
    /\ page.userName = ""
    /\ page' = [page EXCEPT !.userName = UserName]
    /\ UNCHANGED <<now, store, reports, call, form>>

\* the create button of the header or of the report list, with a name stored
HandleCreateReportChecked ==
    /\ page.userName # ""
    /\ HandleCreateReportWithin(MaxCreateDocs)

\* the dashboard is loaded: checkForPendingReport runs to its end
DashboardLoad ==
    LET free == (1 .. MaxCreateDocs) \ DocIdsOf(store)
        id == IF free = {} THEN 0 ELSE CHOOSE i \in free : \A j \in free : i <= j
        result == checkForPendingReport(store, page.userName, id, now)
    IN  /\ result.created # <<>> => free # {}
        /\ store' = IF result.created = <<>> THEN store
                    ELSE InsertDoc(store, result.created[1])
        /\ page' = [page EXCEPT !.pendingReport = result.pendingReport]
        /\ call' = [op |-> "checkForPendingReport", at |-> now,
                    storedName |-> page.userName, created |-> result.created]
        /\ UNCHANGED <<now, reports, form>>

NextCreate ==
    \/ CreateTick
    \/ HandleSaveName
    \/ HandleCreateReportChecked
    \/ DashboardLoad
    \/ HandleArchive

SpecCreate == InitCreate /\ [][NextCreate]_vars

\* the Sunday that starts the Sunday-Saturday week of an instant
WeekStartOf(t) == DayOf(t) - (DayOf(t) % DaysPerWeek)

\* C15: with create requests that do not interleave, at most one non-archived
\* report has its weekEndingDate in any one Sunday-Saturday week.
C15_OnePerWeek ==
    \A i \in DOMAIN store : \A j \in DOMAIN store :
        ( i # j /\ store[i].archived # TRUE /\ store[j].archived # TRUE )
        => WeekStartOf(store[i].weekEndingDate) # WeekStartOf(store[j].weekEndingDate)

\* no non-archived report has its weekEndingDate in the current
\* Sunday-Saturday week
NoLiveReportThisWeek ==
    \A i \in DOMAIN store :
        store[i].archived # TRUE
        => WeekStartOf(store[i].weekEndingDate) # WeekStartOf(now)

\* Monday, 06:00 or later
MondayFromSix == DayOf(now) % DaysPerWeek = 1 /\ (now % TicksPerDay) * 24 >= 6 * TicksPerDay

\* the step is a dashboard load
IsDashboardLoad ==
    /\ call'.op = "checkForPendingReport"
    /\ call'.at = now
    /\ (call' # call \/ store' # store \/ page' # page)

\* the step stores exactly one new report, pending and not archived
CreatesOnePending ==
    /\ \E id \in DocIdsOf(store') \ DocIdsOf(store) :
          /\ DocIdsOf(store') = DocIdsOf(store) \cup {id}
          /\ DocOf(store', id).status = "pending"
          /\ DocOf(store', id).archived = FALSE
    /\ \A id \in DocIdsOf(store) : DocOf(store', id) = DocOf(store, id)

MaxRaceRequests == 3

\* a creation that stores the report only if the week still has none
addPendingReportIfAbsent(st, id, name, t) ==
    IF getCurrentWeekAnyReportGlobal(st, t) = <<>>
    THEN InsertDoc(st, createPendingReport(id, name, t))
    ELSE st

\* addDoc(collection(db, 'weeklyReports'), reportData)
addPendingReport(st, id, name, t) == InsertDoc(st, createPendingReport(id, name, t))

\* every create request before its button is pressed
InitRequests ==
    [s \in 1 .. MaxRaceRequests |-> [pc |-> "idle", existing |-> <<>>, created |-> <<>>]]

InitRace ==
    /\ now = AddDays(1, 0)
    /\ store = <<>>
    /\ reports = <<>>
    /\ call = NoCall
    /\ page = InitRequests
    /\ form = NoForm

\* await getCurrentWeekAnyReportGlobal() resolves
RaceCheck ==
    \E s \in DOMAIN page :
        /\ page[s].pc = "idle"
        /\ page' = [page EXCEPT ![s] = [pc |-> "checked",
                                        existing |-> getCurrentWeekAnyReportGlobal(store, now),
                                        created |-> <<>>]]
        /\ call' = [op |-> "getCurrentWeekAnyReportGlobal", at |-> now, request |-> s]
        /\ UNCHANGED <<now, store, reports, form>>

\* if (existingReport): the dialog is shown and the request ends
RaceDialog ==
    \E s \in DOMAIN page :
        /\ page[s].pc = "checked"
        /\ page[s].existing # <<>>
        /\ page' = [page EXCEPT ![s].pc = "done"]
        /\ call' = [op |-> "setShowDialog", at |-> now, request |-> s]
        /\ UNCHANGED <<now, store, reports, form>>

\* await createPendingReport(userName) resolves and the request navigates to
\* the edit page
RaceCreate ==
    \E s \in DOMAIN page :
        LET free == (1 .. MaxRaceRequests) \ DocIdsOf(store)
            id == CHOOSE i \in free : \A j \in free : i <= j
        IN  /\ page[s].pc = "checked"
            /\ page[s].existing = <<>>
            /\ free # {}
            /\ store' = addPendingReport(store, id, UserName, now)
            /\ page' = [page EXCEPT ![s].pc = "done", ![s].created = <<id>>]
            /\ call' = [op |-> "createPendingReport", at |-> now, request |-> s]
            /\ UNCHANGED <<now, reports, form>>

\* the dialog is closed, or the dashboard is opened again: the create button
\* can be pressed once more
RaceAgain ==
    \E s \in DOMAIN page :
        /\ page[s].pc = "done"
        /\ page' = [page EXCEPT ![s] = [pc |-> "idle", existing |-> <<>>, created |-> <<>>]]
        /\ call' = [op |-> "handleCloseDialog", at |-> now, request |-> s]
        /\ UNCHANGED <<now, store, reports, form>>

NextRace ==
    \/ RaceCheck
    \/ RaceDialog
    \/ RaceCreate
    \/ RaceAgain

SpecRace == InitRace /\ [][NextRace]_vars

\* the request has ended after a check that found no report
EndedAfterEmptyCheck(s) == page[s].pc = "done" /\ page[s].existing = <<>>

\* C16: the check is not atomic with the creation: when two create requests
\* have both found no report and have both ended, each has stored its own
\* report, and the two non-archived reports of the same week stay in the
\* store through every later step of the create flow.
C16_RaceCreatesDuplicates ==
    \A s1 \in DOMAIN page : \A s2 \in DOMAIN page :
        ( s1 # s2 /\ EndedAfterEmptyCheck(s1) /\ EndedAfterEmptyCheck(s2) )
        => /\ page[s1].created # <<>> /\ page[s2].created # <<>>
           /\ page[s1].created # page[s2].created
           /\ page[s1].created[1] \in DocIdsOf(store)
           /\ page[s2].created[1] \in DocIdsOf(store)
           /\ DocOf(store, page[s1].created[1]).archived = FALSE
           /\ DocOf(store, page[s2].created[1]).archived = FALSE
           /\ WeekStartOf(DocOf(store, page[s1].created[1]).weekEndingDate)
              = WeekStartOf(DocOf(store, page[s2].created[1]).weekEndingDate)

\* both requests checked an empty week before either stored its report, both
\* have ended, and the store holds two non-archived reports of this week
C16_Witness ==
    /\ \E s1 \in DOMAIN page : \E s2 \in DOMAIN page :
          s1 # s2 /\ EndedAfterEmptyCheck(s1) /\ EndedAfterEmptyCheck(s2)
    /\ Len(store) = 2
    /\ \A i \in DOMAIN store :
          /\ store[i].archived = FALSE
          /\ WeekStartOf(store[i].weekEndingDate) = WeekStartOf(now)

(***************************************************************************)
(* Single-report pages: the detail page and the edit page                  *)
(***************************************************************************)
\* a getReportById that answers a missing document with null
getReportByIdOrNull(st, reportId, ok) ==
    IF ~ ok THEN Thrown ELSE Returned(getReportById(st, reportId))

\* getReportById with its throw: zero or one document, or a thrown error when
\* the read fails or the document does not exist
getReportByIdCatch(st, reportId, ok) ==
    IF ~ ok THEN Thrown
    ELSE IF getReportById(st, reportId) = <<>> THEN Thrown
    ELSE Returned(getReportById(st, reportId))

\* useState initial values of either page, for the id of its route
PageLoading(id) == [id |-> id, report |-> <<>>, isLoading |-> TRUE, error |-> ""]

\* ReportDetail.fetchReport, from the outcome of getReportById
ReportDetailFetched(p, outcome) ==
    IF outcome.threw
    THEN [p EXCEPT !.error = "Failed to load the report. It may not exist.",
                   !.isLoading = FALSE]
    ELSE [p EXCEPT !.report = outcome.value, !.isLoading = FALSE]

\* EditReport.fetchReport, from the outcome of getReportById; reading the
\* status of null throws inside the try block
EditReportFetched(p, outcome) ==
    IF outcome.threw \/ outcome.value = <<>>
    THEN [p EXCEPT !.error = "Failed to load the report. It may not exist.",
                   !.isLoading = FALSE]
    ELSE IF outcome.value[1].status # "pending"
    THEN [p EXCEPT !.error = "This report has already been submitted and cannot be edited.",
                   !.isLoading = FALSE]
    ELSE [p EXCEPT !.report = outcome.value, !.isLoading = FALSE]

\* what the detail page renders
ReportDetailView(p) ==
    IF p.isLoading THEN "loading"
    ELSE IF p.error # "" THEN "error"
    ELSE IF p.report = <<>> THEN "not found"
    ELSE "report"

\* what the edit page renders
EditReportView(p) ==
    IF p.isLoading THEN "loading"
    ELSE IF p.error # "" THEN "error"
    ELSE "form"

(***************************************************************************)
(* SpecFetch: the two pages opened for ids with and without a record       *)
(***************************************************************************)
MaxFetchId == 2

InitFetch ==
    /\ now = PageNow
    /\ store \in StaleStores
    /\ reports = <<>>
    /\ call = NoCall
    /\ page = [detail |-> PageLoading(1), edit |-> PageLoading(1)]
    /\ form = NoForm

\* the detail page is opened for an id
ReportDetailMount ==
    \E id \in 1 .. MaxFetchId :
        /\ page' = [page EXCEPT !.detail = PageLoading(id)]
        /\ call' = NoCall
        /\ UNCHANGED <<now, store, reports, form>>

\* the edit page is opened for an id
EditReportMount ==
    \E id \in 1 .. MaxFetchId :
        /\ page' = [page EXCEPT !.edit = PageLoading(id)]
        /\ call' = NoCall
        /\ UNCHANGED <<now, store, reports, form>>

ReportDetailFetch ==
    \E ok \in BOOLEAN :
        LET outcome == getReportByIdCatch(store, page.detail.id, ok)
        IN  /\ page.detail.isLoading
            /\ page' = [page EXCEPT !.detail = ReportDetailFetched(@, outcome)]
            /\ call' = [op |-> "ReportDetail.fetchReport", id |-> page.detail.id,
                        readOk |-> ok, outcome |-> outcome]
            /\ UNCHANGED <<now, store, reports, form>>

EditReportFetch ==
    \E ok \in BOOLEAN :
        LET outcome == getReportByIdCatch(store, page.edit.id, ok)
        IN  /\ page.edit.isLoading
            /\ page' = [page EXCEPT !.edit = EditReportFetched(@, outcome)]
            /\ call' = [op |-> "EditReport.fetchReport", id |-> page.edit.id,
                        readOk |-> ok, outcome |-> outcome]
            /\ UNCHANGED <<now, store, reports, form>>

NextFetch ==
    \/ ReportDetailMount
    \/ EditReportMount
    \/ ReportDetailFetch
    \/ EditReportFetch
    \/ HandleDelete

SpecFetch == InitFetch /\ [][NextFetch]_vars

\* C18: a fetch of a report id that has no record fails explicitly:
\* getReportById throws, and the detail page and the edit page end with
\* loading off, an error message and no report, so that neither the report
\* view nor the editing form is rendered.
C18_MissingReportIsAnError ==
    /\ ( call.op = "ReportDetail.fetchReport" /\ call.id \notin DocIdsOf(store) )
       => /\ call.outcome.threw
          /\ ~ page.detail.isLoading
          /\ page.detail.error # ""
          /\ page.detail.report = <<>>
          /\ ReportDetailView(page.detail) = "error"
    /\ ( call.op = "EditReport.fetchReport" /\ call.id \notin DocIdsOf(store) )
       => /\ call.outcome.threw
          /\ ~ page.edit.isLoading
          /\ page.edit.error # ""
          /\ page.edit.report = <<>>
          /\ EditReportView(page.edit) = "error"
    /\ \A id \in 1 .. MaxFetchId :
          id \notin DocIdsOf(store) => getReportByIdCatch(store, id, TRUE).threw

\* the report was deleted, the detail page was opened for its id with a read
\* that went through, and the page shows the error
C18_Witness ==
    /\ call.op = "ReportDetail.fetchReport"
    /\ call.id = 1
    /\ call.readOk
    /\ store = <<>>
    /\ ReportDetailView(page.detail) = "error"
    /\ ~ page.edit.isLoading
    /\ page.edit.report # <<>>

(***************************************************************************)
(* SpecPerf: the metric aggregator applied to bounded report lists         *)
(***************************************************************************)
MaxPerfReports == 2
PerfInstants == {1, TicksPerDay + 1}

\* metric lists with an entry above its target, entries that lack value,
\* targetValue or both, and a title entered twice
PerfMetricLists ==
    { <<>>,
      <<MkEntry("Acres Secured", 7, 3)>>,
      <<MkEntry("Acres Secured", 1, 3), MkEntry("Quotations Sent", 2, 0)>>,
      <<[id |-> "2", title |-> "Acres Secured", frequency |-> "Monthly",
         completed |-> FALSE, value |-> 2]>>,
      <<[id |-> "2", title |-> "Acres Secured", frequency |-> "Monthly",
         completed |-> FALSE, targetValue |-> 4],
        [id |-> "3", title |-> "Quotations Sent", frequency |-> "Weekly",
         completed |-> FALSE]>>,
      <<MkEntry("Acres Secured", 1, 1), MkEntry("Acres Secured", 2, 1)>> }

InitPerf ==
    /\ now = 0
    /\ store = <<>>
    /\ reports = <<>>
    /\ call = NoCall
    /\ page = InitPage
    /\ form = NoForm

AddPerfReport ==
    \E m \in PerfMetricLists, at \in PerfInstants :
        /\ Len(reports) < MaxPerfReports
        /\ reports' = Append(reports,
               MkReport(Len(reports) + 1, "ann", m, at, at, "submitted", FALSE))
        /\ call' = NoCall
        /\ UNCHANGED <<now, store, page, form>>

CallAggregateMetrics ==
    /\ call' = [op |-> "getMetricsPerformance", value |-> AggregateMetrics(reports)]
    /\ UNCHANGED <<now, store, reports, page, form>>

NextPerf == AddPerfReport \/ CallAggregateMetrics

SpecPerf == InitPerf /\ [][NextPerf]_vars

\* every metric entry of every report, in order
RECURSIVE AllEntries(_)
AllEntries(rs) ==
    IF rs = <<>> THEN <<>> ELSE Head(rs).metrics \o AllEntries(Tail(rs))

EntriesTitled(rs, title) ==
    LET IsTitle(m) == m.title = title
    IN  SelectSeq(AllEntries(rs), IsTitle)

\* the sum of one field over a list of entries, an absent field counting as 0
RECURSIVE SumOfField(_, _)
SumOfField(entries, f) ==
    IF entries = <<>> THEN 0
    ELSE (IF f \in DOMAIN Head(entries) THEN Head(entries)[f] ELSE 0)
         + SumOfField(Tail(entries), f)

\* C19: for every report list, getMetricsPerformance has an entry for exactly
\* the metric titles occurring in the reports, and for each of them the total
\* is the sum of its values, the average is that sum over the number of
\* entries, and the completion is sum / summed targets * 100 when the summed
\* target is positive and 0 otherwise, above 100 when the sum exceeds the
\* summed target; an absent value or targetValue counts as 0.
C19_TotalsAveragesCompletion ==
    call.op = "getMetricsPerformance" =>
        LET titles == {AllEntries(reports)[i].title : i \in DOMAIN AllEntries(reports)}
        IN  /\ DOMAIN call.value.totals = titles
            /\ DOMAIN call.value.averages = titles
            /\ DOMAIN call.value.completion = titles
            /\ \A title \in titles :
                  LET entries == EntriesTitled(reports, title)
                      sum == SumOfField(entries, "value")
                      target == SumOfField(entries, "targetValue")
                      completion == call.value.completion[title]
                  IN  /\ call.value.totals[title] = sum
                      /\ call.value.averages[title] = Frac(sum, Len(entries))
                      /\ completion = IF target > 0 THEN Frac(sum * 100, target)
                                      ELSE Frac(0, 1)
                      /\ (target > 0 /\ sum > target)
                            => completion.num > 100 * completion.den

\* two reports: one entry above its target and one entry without a
\* targetValue; the completion is 9 / 3 * 100
C19_Witness ==
    /\ call.op = "getMetricsPerformance"
    /\ Len(reports) = 2
    /\ reports[1].metrics = <<MkEntry("Acres Secured", 7, 3)>>
    /\ Len(reports[2].metrics) = 1
    /\ ~ HasNumber(reports[2].metrics[1], "targetValue")
    /\ call.value.totals["Acres Secured"] = 9
    /\ call.value.averages["Acres Secured"] = Frac(9, 2)
    /\ call.value.completion["Acres Secured"] = Frac(900, 3)

(***************************************************************************)
(* The series, point by point                                              *)
(***************************************************************************)
\* the reports of one day key that contain the metric
ReportsWithMetricAt(rs, title, dateKey) ==
    LET Counts(r) == HasMetric(r, title) /\ IsoDateKey(r.weekEndingDate) = dateKey
    IN  SelectSeq(rs, Counts)

\* the target a report states for the metric, or the default target
StatedTarget(r, title) ==
    IF HasNumber(FindMetric(r, title)[1], "targetValue")
    THEN FindMetric(r, title)[1].targetValue
    ELSE SeriesDefaultTarget(title)

StatedValue(r, title) ==
    IF HasNumber(FindMetric(r, title)[1], "value") THEN FindMetric(r, title)[1].value ELSE 0

RECURSIVE SumOfValues(_, _)
SumOfValues(rs, title) ==
    IF rs = <<>> THEN 0 ELSE StatedValue(Head(rs), title) + SumOfValues(Tail(rs), title)

\* C20: for every report list and metric title, the series of
\* getPerformanceByMetric has exactly one point per distinct day key of the
\* weekEndingDate among the reports that contain the metric, in ascending
\* order of date; the value of a point is the sum of the values of those
\* reports and its target is the largest of their targets; a report without
\* the metric adds no point and nothing to any point.
C20_OnePointPerDay ==
    call.op = "getPerformanceByMetric" =>
        LET title == call.metricTitle
            data == call.value.data
            keys == {IsoDateKey(reports[i].weekEndingDate) :
                        i \in {j \in DOMAIN reports : HasMetric(reports[j], title)}}
        IN  /\ {data[i].date : i \in DOMAIN data} = keys
            /\ Len(data) = Cardinality(keys)
            /\ \A i, j \in DOMAIN data : i < j => data[i].date < data[j].date
            /\ \A i \in DOMAIN data :
                  LET with == ReportsWithMetricAt(reports, title, data[i].date)
                  IN  /\ data[i].value = SumOfValues(with, title)
                      /\ \E k \in DOMAIN with : data[i].target = StatedTarget(with[k], title)
                      /\ \A k \in DOMAIN with : data[i].target >= StatedTarget(with[k], title)

\* three reports given latest day first, the last of them without the metric
\* and on the earlier day: two points, earliest day first
C20_Witness ==
    /\ call.op = "getPerformanceByMetric"
    /\ call.metricTitle = "Acres Secured"
    /\ Len(reports) = 3
    /\ reports[1].weekEndingDate = TicksPerDay + 1
    /\ reports[1].metrics = <<MkEntry("Acres Secured", 1, 3)>>
    /\ reports[2].weekEndingDate = 1
    /\ Len(reports[2].metrics) = 2
    /\ reports[3].weekEndingDate = 1
    /\ reports[3].metrics = <<>>
    /\ call.value.data = <<[date |-> 0, value |-> 2, target |-> 5],
                           [date |-> 1, value |-> 1, target |-> 3]>>

(***************************************************************************)
(* SpecMonth: calculateMonthlyProgress over bounded stores                 *)
(***************************************************************************)
MaxMonthDocs == 2
MonthUsers == {"ann", "bob"}
\* the last instant of the first month, the first instant of the second month
\* and a later instant of the second month
MonthInstants == {DaysPerMonth * TicksPerDay - 1, DaysPerMonth * TicksPerDay,
                  DaysPerMonth * TicksPerDay + TicksPerDay + 1}
MonthMetricLists ==
    { <<MkEntry("Acres Secured", 2, 5), MkEntry("New Accounts Outreach", 3, 10)>>,
      <<MkEntry("Acres Secured", 1, 5)>>,
      <<[id |-> "2", title |-> "Acres Secured", frequency |-> "Monthly",
         completed |-> FALSE, targetValue |-> 5]>> }

InitMonth ==
    /\ now \in MonthInstants
    /\ store = <<>>
    /\ reports = <<>>
    /\ call = NoCall
    /\ page = InitPage
    /\ form = NoForm

\* a document written earlier, with the submitter, date and status it was given
AddMonthDoc ==
    \E id \in (1 .. MaxMonthDocs) \ DocIdsOf(store), u \in MonthUsers,
       cr \in MonthInstants, status \in Statuses, m \in MonthMetricLists :
        /\ store' = InsertDoc(store, MkReport(id, u, m, cr, cr, status, FALSE))
        /\ call' = NoCall
        /\ UNCHANGED <<now, reports, page, form>>

CallCalculateMonthlyProgress ==
    \E u \in MonthUsers :
        /\ call' = [op |-> "calculateMonthlyProgress", userName |-> u, at |-> now,
                    value |-> calculateMonthlyProgress(store, u, now)]
        /\ UNCHANGED <<now, store, reports, page, form>>

NextMonth == AddMonthDoc \/ CallCalculateMonthlyProgress

SpecMonth == InitMonth /\ [][NextMonth]_vars

\* the Monthly entries of a title in the submitted reports of a submitter that
\* were created in the calendar month of t
MonthlyEntriesOf(st, userName, title, t) ==
    LET Counts(d) == /\ d.userId = userName
                     /\ d.status = "submitted"
                     /\ getMonth(d.createdAt) = getMonth(t)
        IsMonthlyOfTitle(m) == m.title = title /\ m.frequency = "Monthly"
    IN  SelectSeq(AllEntries(SelectSeq(st, Counts)), IsMonthlyOfTitle)

\* C23: calculateMonthlyProgress(name) holds, for each metric title, the sum
\* of the values of exactly the Monthly entries of submitted reports by that
\* name created in the current calendar month; Weekly metrics, pending
\* reports, reports of other submitters and reports of other months add
\* nothing, and a title with no such entry has no total.
C23_MonthlyProgressSum ==
    call.op = "calculateMonthlyProgress" =>
        \A title \in DefaultTitles :
            LET entries == MonthlyEntriesOf(store, call.userName, title, call.at)
            IN  /\ title \in DOMAIN call.value <=> entries # <<>>
                /\ entries # <<>> =>
                      call.value[title].value = SumOfField(entries, "value")

\* ann has a submitted report of this month with Monthly and Weekly entries;
\* the other report, pending or of bob or of last month, adds nothing
C23_Witness ==
    /\ call.op = "calculateMonthlyProgress"
    /\ call.userName = "ann"
    /\ getMonth(call.at) = 1
    /\ Len(store) = 2
    /\ store[1].userId = "ann" /\ store[1].status = "submitted"
    /\ getMonth(store[1].createdAt) = 1
    /\ Len(store[1].metrics) = 2
    /\ store[2].metrics = <<MkEntry("Acres Secured", 1, 5)>>
    /\ \/ store[2].status = "pending"
       \/ store[2].userId = "bob"
       \/ getMonth(store[2].createdAt) = 0
    /\ DOMAIN call.value = {"Acres Secured"}
    /\ call.value["Acres Secured"].value = 2

(***************************************************************************)
(* The default target of the achievement calculator                        *)
(***************************************************************************)
RECURSIVE SumOfSeq(_)
SumOfSeq(ns) == IF ns = <<>> THEN 0 ELSE Head(ns) + SumOfSeq(Tail(ns))

DefaultTargetOf(title) == FindDefaultMetric(title)[1].targetValue

C25_CreatedInsideCurrentWeek ==
    \A i \in DOMAIN store :
        ( store[i].createdAt = now /\ ~ store[i].archived ) =>
            /\ store[i].weekEndingDate = getWeekRange(now).end
            /\ isCurrentWeek(store[i].weekEndingDate, now)
            /\ getCurrentWeekAnyReportGlobal(store, now) # <<>>

(***************************************************************************)
(* SpecEdit: the metrics of one report edited, saved, submitted, reopened  *)
(***************************************************************************)
MaxEditDocs == 1
EditMetricIds == {"1", "2"}
\* below the targets, the target of "Acres Secured", the target of "New
\* Accounts Outreach"
EditValues == {0, 5, 10}

HandleCreateReportEdit == HandleCreateReportWithin(MaxEditDocs)

HandleSliderChange ==
    \E id \in EditMetricIds, value \in EditValues :
        /\ form.open
        /\ form' = [form EXCEPT !.metrics = SetMetricValue(@, id, value)]
        /\ form' # form
        /\ call' = [op |-> "handleMetricValueChange", id |-> id, value |-> value]
        /\ UNCHANGED <<now, store, reports, page>>

NextEdit ==
    \/ HandleCreateReportEdit
    \/ OpenEditForm
    \/ HandleSliderChange
    \/ SetReportText
    \/ HandleSubmit
    \/ HandleCancel
    \/ OpenReportDetail
    \/ HandleRevertToPending

SpecEdit == InitLife /\ [][NextEdit]_vars

\* every entry of every stored report has completed = (value >= targetValue)
CompletedIsDerived ==
    \A i \in DOMAIN store : \A j \in DOMAIN store[i].metrics :
        LET m == store[i].metrics[j]
        IN  m.completed = (m.value >= m.targetValue)

\* a step of handleMetricValueChange
IsValueChange ==
    /\ call'.op = "handleMetricValueChange"
    /\ form.open /\ form'.open
    /\ form'.metrics # form.metrics

\* the entries with the id of the change take its value, and nothing but
\* their value and completed flag changes; every other entry is unchanged
OneEntryChanged ==
    /\ DOMAIN form'.metrics = DOMAIN form.metrics
    /\ \A j \in DOMAIN form.metrics :
          IF form.metrics[j].id = call'.id
          THEN /\ form'.metrics[j].value = call'.value
               /\ DOMAIN form'.metrics[j] = DOMAIN form.metrics[j]
               /\ \A k \in DOMAIN form.metrics[j] \ {"value", "completed"} :
                     form'.metrics[j][k] = form.metrics[j][k]
          ELSE form'.metrics[j] = form.metrics[j]
    /\ Cardinality({j \in DOMAIN form.metrics : form'.metrics[j] # form.metrics[j]}) = 1

\* C26: every metric entry the editing form writes to the store, by a save of
\* edits or by a submit, has completed = (value >= targetValue), after every
\* sequence of form initialisations and value changes; and a value change on
\* one metric changes the value and the completed flag of that metric only.
C26_CompletedDerivedAtWrite ==
    /\ [] CompletedIsDerived
    /\ [][IsValueChange => OneEntryChanged]_vars

\* the form saved a report in which one metric reached its target and a
\* second metric was moved without reaching its target
C26_Witness ==
    /\ call.op = "saveEdits"
    /\ Len(store) = 1
    /\ store[1].status = "pending"
    /\ store[1].metrics[2].value = 5
    /\ store[1].metrics[2].completed
    /\ store[1].metrics[1].value = 5
    /\ ~ store[1].metrics[1].completed

(***************************************************************************)
(* SpecLimit: a week in which reports are created, archived and deleted    *)
(***************************************************************************)
MaxLimitDocs == 11

HandleCreateReportLimit == HandleCreateReportWithin(MaxLimitDocs)

NextLimit ==
    \/ HandleCreateReportLimit
    \/ HandleArchive
    \/ HandleDelete

SpecLimit == InitLife /\ [][NextLimit]_vars

\* the non-archived reports whose weekEndingDate is in the current
\* Sunday-Saturday week
LiveReportsThisWeek ==
    {i \in DOMAIN store : /\ store[i].archived # TRUE
                          /\ isCurrentWeek(store[i].weekEndingDate, now)}

\* C27: getCurrentWeekAnyReportGlobal returns a non-archived report whenever
\* the store holds a non-archived report whose weekEndingDate is in the
\* current week, however many archived reports the week has, and returns
\* null only when there is no such report.
C27_FindsLiveReport ==
    LET found == getCurrentWeekAnyReportGlobal(store, now)
    IN  /\ LiveReportsThisWeek # {} => found # <<>>
        /\ found # <<>> => found[1].archived # TRUE
        /\ found = <<>> => LiveReportsThisWeek = {}

(***************************************************************************)
(* Archived reports list: paging                                           *)
(***************************************************************************)
pageSize == 5

\* orderBy('weekEndingDate', 'desc'): documents of equal weekEndingDate follow
\* in descending order of document name
RECURSIVE InsertArchived(_, _)
InsertArchived(sorted, d) ==
    IF sorted = <<>> THEN <<d>>
    ELSE IF \/ Head(sorted).weekEndingDate > d.weekEndingDate
            \/ ( Head(sorted).weekEndingDate = d.weekEndingDate /\ Head(sorted).id > d.id )
         THEN <<Head(sorted)>> \o InsertArchived(Tail(sorted), d)
         ELSE <<d>> \o sorted

RECURSIVE OrderArchived(_)
OrderArchived(rs) ==
    IF rs = <<>> THEN <<>>
    ELSE InsertArchived(OrderArchived(Tail(rs)), Head(rs))

\* where('archived', '==', true), where('status', '==', 'submitted'), ordered
ArchivedQuery(st) ==
    LET Matches(d) == d.archived = TRUE /\ d.status = "submitted"
    IN  OrderArchived(SelectSeq(st, Matches))

\* the position of a document snapshot in the ordered result, 0 when absent
CursorIndex(all, docRef) ==
    IF \E i \in DOMAIN all : all[i].id = docRef[1]
    THEN CHOOSE i \in DOMAIN all : all[i].id = docRef[1]
    ELSE 0

\* getArchivedReports(pageSize, lastDoc): startAfter(lastDoc), limit(pageSize)
getArchivedReports(st, size, lastDoc) ==
    LET all == ArchivedQuery(st)
        start == IF lastDoc = <<>> THEN 0 ELSE CursorIndex(all, lastDoc)
        rs == SubSeq(all, start + 1, Min(start + size, Len(all)))
    IN  [reports |-> rs,
         lastDoc |-> IF rs = <<>> THEN <<>> ELSE <<rs[Len(rs)].id>>]

\* getPreviousArchivedReports(firstDoc, pageSize): endBefore(firstDoc),
\* limitToLast(pageSize)
getPreviousArchivedReports(st, firstDoc, size) ==
    LET all == ArchivedQuery(st)
        end == CursorIndex(all, firstDoc) - 1
        rs == SubSeq(all, Max(1, end - size + 1), end)
    IN  [reports |-> rs,
         firstDoc |-> IF rs = <<>> THEN <<>> ELSE <<rs[1].id>>]

\* useState initial values of ArchivedReportsList
InitArchivedList ==
    [reports |-> <<>>, loading |-> TRUE, error |-> "", currentPage |-> 1,
     hasMore |-> FALSE, hasPrevious |-> FALSE, lastDoc |-> <<>>, firstDocs |-> <<>>]

\* fetchReports
fetchReports(st, p) ==
    LET data == getArchivedReports(st, pageSize, <<>>)
    IN  [p EXCEPT !.reports = data.reports,
                  !.lastDoc = data.lastDoc,
                  !.firstDocs = IF Len(data.reports) > 0
                                THEN <<data.reports[1].id>> ELSE @,
                  !.hasMore = (Len(data.reports) = pageSize),
                  !.hasPrevious = FALSE,
                  !.currentPage = 1,
                  !.error = "",
                  !.loading = FALSE]

\* loadNextPage
loadNextPage(st, p) ==
    IF p.lastDoc = <<>> THEN p
    ELSE LET data == getArchivedReports(st, pageSize, p.lastDoc)
         IN  IF Len(data.reports) > 0
             THEN [p EXCEPT !.reports = data.reports,
                            !.lastDoc = data.lastDoc,
                            !.firstDocs = Append(@, data.reports[1].id),
                            !.hasMore = (Len(data.reports) = pageSize),
                            !.hasPrevious = TRUE,
                            !.currentPage = @ + 1]
             ELSE [p EXCEPT !.hasMore = FALSE]

\* loadPreviousPage
loadPreviousPage(st, p) ==
    IF p.currentPage <= 1 \/ Len(p.firstDocs) < 2 THEN p
    ELSE LET prevPageFirstDoc == <<p.firstDocs[p.currentPage - 1]>>
             data == getPreviousArchivedReports(st, prevPageFirstDoc, pageSize)
         IN  IF Len(data.reports) > 0
             THEN [p EXCEPT !.reports = data.reports,
                            !.lastDoc = <<data.reports[Len(data.reports)].id>>,
                            !.firstDocs = SubSeq(@, 1, Min(Len(@), p.currentPage - 1)),
                            !.hasMore = TRUE,
                            !.hasPrevious = (p.currentPage - 2 > 0),
                            !.currentPage = @ - 1]
             ELSE p

(***************************************************************************)
(* SpecPaging: the archived list paged over a store that does not change   *)
(***************************************************************************)
MaxPagingDocs == 11
\* the page number can grow past the number of pages; it is followed this far
MaxPageNumber == 4

\* n submitted reports, g of them per week, all archived but one at most
PagingStore(n, g, live) ==
    [i \in 1 .. n |->
        MkReport(i, "ann", DEFAULT_METRICS, (i - 1) \div g, (i - 1) \div g,
                 "submitted", i # live)]

InitPaging ==
    /\ now = 0
    /\ \E n \in 0 .. MaxPagingDocs, g \in 1 .. 2, live \in 0 .. MaxPagingDocs :
          store = PagingStore(n, g, live)
    /\ reports = <<>>
    /\ call = NoCall
    /\ page = InitArchivedList
    /\ form = NoForm

\* the effect of the mount
FetchReports ==
    /\ page.loading
    /\ page' = fetchReports(store, page)
    /\ call' = [op |-> "fetchReports"]
    /\ UNCHANGED <<now, store, reports, form>>

\* the Next button, enabled while hasMore
LoadNextPage ==
    /\ ~ page.loading
    /\ page.hasMore
    /\ page.currentPage < MaxPageNumber
    /\ page' = loadNextPage(store, page)
    /\ call' = [op |-> "loadNextPage", from |-> page.currentPage]
    /\ UNCHANGED <<now, store, reports, form>>

\* the Previous button, enabled while hasPrevious
LoadPreviousPage ==
    /\ ~ page.loading
    /\ page.hasPrevious
    /\ page' = loadPreviousPage(store, page)
    /\ call' = [op |-> "loadPreviousPage", from |-> page.currentPage]
    /\ UNCHANGED <<now, store, reports, form>>

NextPaging == FetchReports \/ LoadNextPage \/ LoadPreviousPage

SpecPaging == InitPaging /\ [][NextPaging]_vars

\* the reports of page k of the archived list
ArchivedPage(st, k) ==
    LET all == ArchivedQuery(st)
    IN  SubSeq(all, (k - 1) * pageSize + 1, Min(k * pageSize, Len(all)))

\* C28: with the store unchanged, loadPreviousPage after loadNextPage shows
\* the reports of the page the list was on and sets currentPage back to it,
\* and after every sequence of next and previous calls the reports shown are
\* those of the page number shown.
C28_PagingRoundTrip ==
    /\ [] ( ~ page.loading => page.reports = ArchivedPage(store, page.currentPage) )
    /\ [][ ( call'.op = "loadPreviousPage" /\ page.currentPage > 1 )
           => /\ page'.currentPage = page.currentPage - 1
              /\ page'.reports = ArchivedPage(store, page.currentPage - 1) ]_vars

(***************************************************************************)
(* SpecRead: one analytics fetch while reports are written and deleted     *)
(***************************************************************************)
FetchDataReportsKept == FetchDataReportsRead(TRUE)

\* the debounce timer fires while no other fetch is in flight
FetchDataBeginAlone ==
    /\ page.fetches = <<>>
    /\ FetchDataStart(MaxFetches)

NextRead ==
    \/ AddPageDoc
    \/ HandleDelete
    \/ HandleTimeRangeChange
    \/ FetchDataBeginAlone
    \/ FetchDataReportsKept
    \/ FetchDataMetrics
    \/ FetchDataCharts

SpecRead == InitPageSpec /\ [][NextRead]_vars

\* the chart series built from one list of reports
ChartsFrom(rs) ==
    [i \in DOMAIN DEFAULT_METRICS |->
        [title |-> DEFAULT_METRICS[i].title,
         data |-> BuildSeries(rs, DEFAULT_METRICS[i].title).data]]

MaxProjectDocs == 1

\* the pages of the second session: its edit page between the read of the
\* report and the initialisation of the form, and its form
InitProjectPages == [peer |-> NoForm, detail |-> <<>>, loaded |-> <<>>]

InitProject ==
    /\ now = AddDays(1, 0)
    /\ store = <<>>
    /\ reports = <<>>
    /\ call = NoCall
    /\ page = InitProjectPages
    /\ form = NoForm

HandleCreateReportProject == HandleCreateReportWithin(MaxProjectDocs)

\* EditReport.fetchReport of the second session: the report is read and,
\* being pending, handed to the form
PeerFetchReport ==
    \E id \in DocIdsOf(store) :
        LET found == getReportById(store, id)
        IN  /\ ~ page.peer.open
            /\ found # <<>>
            /\ found[1].status = "pending"
            /\ page' = [page EXCEPT !.loaded = found]
            /\ call' = [op |-> "getReportById", id |-> id, at |-> now]
            /\ UNCHANGED <<now, store, reports, form>>

\* the form of the second session initialises for the report it was handed:
\* calculateMonthlyProgress reads the store as it is now
PeerInitializeForm ==
    /\ page.loaded # <<>>
    /\ page' = [page EXCEPT !.peer = initializeForm(store, page.loaded[1], now),
                            !.loaded = <<>>]
    /\ call' = [op |-> "initializeForm", id |-> page.loaded[1].id, at |-> now]
    /\ UNCHANGED <<now, store, reports, form>>

NextProject ==
    \/ HandleCreateReportProject
    \/ OpenEditForm
    \/ HandleMetricValueChange
    \/ SetReportText
    \/ HandleSubmit
    \/ OpenReportDetail
    \/ HandleRevertToPending
    \/ PeerFetchReport
    \/ PeerInitializeForm
    \/ PeerHandleCancel

SpecProject == InitProject /\ [][NextProject]_vars

\* the monthly totals of the submitter without the report of the given id
ProgressWithout(f) ==
    calculateMonthlyProgress(deleteReport(store, f.pendingReport.id),
                             f.pendingReport.userId, now)

\* C30: the prior accumulated monthly total that the editing form adds to its
\* own values never includes the values of the report being edited, in every
\* sequence of create, submit, reopen and edit and every interleaving with
\* another session that submits the same report: the projected monthly total
\* counts the value of a report for a Monthly metric at most once.
C30_PriorExcludesEditedReport ==
    /\ ( call.op = "calculateMonthlyProgress" /\ form.open )
          => form.monthlyProgress = ProgressWithout(form)
    /\ ( call.op = "initializeForm" /\ page.peer.open )
          => page.peer.monthlyProgress = ProgressWithout(page.peer)

====
